---- MODULE Spec2Model ----
(***************************************************************************)
(* A model of perform_comparison (data_processor.py), the comparator of    *)
(* the data testing framework.  A call is followed statement by statement: *)
(* the preparation of the two tables (rename, drop), the five checks in    *)
(* the order of the code, and the return; every statement runs inside the  *)
(* try block, so each step may instead end the call in the except clause.  *)
(*                                                                         *)
(* Tables are pandas DataFrames with the default RangeIndex: a list of     *)
(* column labels and a list of rows.  A cell is <<"int", n>>, <<"str", n>> *)
(* (the text made of n letters "s", so that + on text is concatenation)    *)
(* or <<"null", 0>> (NaN).  The tables handed in by the caller have        *)
(* distinct column labels (read_csv and DataFrame(dict) guarantee it) and  *)
(* columns that are numeric or text, never mixed; a rename may still give  *)
(* the source two columns of one label.                                    *)
(***************************************************************************)
EXTENDS Integers, Sequences, FiniteSets, Bags, TLC

VARIABLES
    source_arg,       \* the caller's source table (or None)
    target_arg,       \* the caller's target table (or None)
    mapping,          \* the rename mapping argument (a dict or None)
    ignored_columns,  \* the ignored-columns argument (a list or None)
    source_df,        \* the local name source_df of perform_comparison
    target_df,        \* the local name target_df of perform_comparison
    results,          \* the local dict results
    pc,               \* the statement perform_comparison is at
    outcome,          \* "running", "returned" or "raised"
    returned,         \* the value handed to the caller by return
    error,            \* the message of the Exception raised to the caller
    loader,           \* a call of load_data: arguments, position, effects
    processor,        \* a MetadataProcessor and its get_comparison_pairs call
    mapper,           \* a call of auto_map_columns
    differ,           \* a call of generate_data_diff_report
    app,              \* a run of the page script (main.py): the handler of
                      \* the button clicked, its locals, what it has shown
    session,          \* st.session_state
    reports           \* the clock datetime.now() reads, in seconds, and the
                      \* paths under REPORTS_DIR written so far

\* the state outside perform_comparison
outside == <<loader, processor, mapper, differ, app, session, reports>>

\* the state of perform_comparison
comparison == <<source_arg, target_arg, mapping, ignored_columns, source_df,
                target_df, results, pc, outcome, returned, error>>

vars == <<comparison, outside>>

----------------------------------------------------------------------------
(* Bounds of the model *)

MaxRows == 2

\* the clock runs from 0 to MaxTime seconds
MaxTime == 1

----------------------------------------------------------------------------
(* Values *)

NULL == <<"null", 0>>
IntCell(n) == <<"int", n>>
StrCell(n) == <<"str", n>>

IsNull(c) == c[1] = "null"

NoneTable == [isNone |-> TRUE, columns |-> <<>>, rows |-> <<>>]
DataFrame(cols, rws) == [isNone |-> FALSE, columns |-> cols, rows |-> rws]

NoneArg == [isNone |-> TRUE, d |-> <<>>, items |-> <<>>]
Dict(f) == [isNone |-> FALSE, d |-> f, items |-> <<>>]
List(s) == [isNone |-> FALSE, d |-> <<>>, items |-> s]

EmptyDict == <<>>
NoValue == <<>>

Range(s) == {s[i] : i \in DOMAIN s}

RECURSIVE SelectIdx(_, _)
\* the increasing sequence of the indices of s that satisfy keep
SelectIdx(n, keep) ==
    IF n = 0 THEN <<>>
    ELSE IF n \in keep THEN Append(SelectIdx(n - 1, keep), n)
         ELSE SelectIdx(n - 1, keep)

----------------------------------------------------------------------------
(* pandas: the operations perform_comparison uses *)

Labels(df) == Range(df.columns)

NRows(df) == Len(df.rows)

\* the position of the last column labelled name (the one a dict built from
\* the labels keeps)
LastIndex(df, name) ==
    CHOOSE j \in DOMAIN df.columns :
        /\ df.columns[j] = name
        /\ \A k \in DOMAIN df.columns : df.columns[k] = name => k <= j

HasDuplicateLabel(df, name) ==
    Cardinality({j \in DOMAIN df.columns : df.columns[j] = name}) > 1

\* df[name] for a label that names one column: its cells, by row
Series(df, name) ==
    [i \in 1..NRows(df) |-> df.rows[i][LastIndex(df, name)]]

\* the dtype pandas infers for a column: int64 for integers, float64 as soon
\* as a numeric column holds NaN, object for text and for a column of a
\* table without rows
DType(df, name) ==
    LET col == Series(df, name) IN
    IF NRows(df) = 0 THEN "object"
    ELSE IF \E i \in DOMAIN col : col[i][1] = "str" THEN "object"
    ELSE IF \E i \in DOMAIN col : IsNull(col[i]) THEN "float64"
    ELSE "int64"

\* bool(mapping): None and the empty dict are false
Truthy(m) == ~m.isNone /\ DOMAIN m.d # {}

\* df.rename(columns=m): labels that are keys of m are replaced, the others
\* and the keys that name no column are left alone
Rename(df, m) ==
    [df EXCEPT !.columns =
        [j \in DOMAIN df.columns |->
            IF df.columns[j] \in DOMAIN m THEN m[df.columns[j]]
            ELSE df.columns[j]]]

\* df.drop(columns=labels) raises KeyError for a label that names no column
DropRaises(df, labels) == \E i \in DOMAIN labels : labels[i] \notin Labels(df)

\* df.drop(columns=labels): every column with one of the labels goes
Drop(df, labels) ==
    LET keep == SelectIdx(Len(df.columns),
                    {j \in DOMAIN df.columns : df.columns[j] \notin Range(labels)})
    IN [df EXCEPT
          !.columns = [k \in DOMAIN keep |-> df.columns[keep[k]]],
          !.rows = [i \in DOMAIN df.rows |->
                       [k \in DOMAIN keep |-> df.rows[i][keep[k]]]]]

\* the whole ignored list, without the membership filter
IgnoredUnfiltered(df, ignored) == ignored

\* [col for col in ignored_columns if col in df.columns]
IgnoredPresent(df, ignored) ==
    LET keep == SelectIdx(Len(ignored),
                    {i \in DOMAIN ignored : ignored[i] \in Labels(df)})
    IN [k \in DOMAIN keep |-> ignored[keep[k]]]

\* df.duplicated().sum(): the rows equal, over all columns, to an earlier
\* row (NaN equal to NaN); an empty frame has none
DuplicatedSum(df) ==
    IF df.columns = <<>> \/ df.rows = <<>> THEN 0
    ELSE Cardinality({i \in DOMAIN df.rows :
                         \E k \in 1..(i - 1) : df.rows[k] = df.rows[i]})

\* df.isnull().sum().to_dict(): label -> number of nulls of the column
IsnullSumToDict(df) ==
    [name \in Labels(df) |->
        Cardinality({i \in DOMAIN df.rows :
                        IsNull(df.rows[i][LastIndex(df, name)])})]

\* a + b on two cells raises TypeError when exactly one of them is text
AddRaises(a, b) == (a[1] = "str") # (b[1] = "str")

AddCell(a, b) ==
    IF a[1] = "str" /\ b[1] = "str" THEN StrCell(a[2] + b[2])
    ELSE IF IsNull(a) \/ IsNull(b) THEN NULL
    ELSE IntCell(a[2] + b[2])

\* a == b on two cells: NaN equals nothing, text never equals a number
EqCell(a, b) == ~IsNull(a) /\ ~IsNull(b) /\ a = b

----------------------------------------------------------------------------
(* perform_comparison *)

MinRowCount == 1

RuleColumns == {"Column A", "Column B", "Column C"}

DefaultCheck == [passed |-> FALSE, details |-> EmptyDict]

\* column_mapping created as passed
InitialResultsMappingPassed ==
    [row_count      |-> DefaultCheck,
     duplicates     |-> DefaultCheck,
     null_values    |-> DefaultCheck,
     business_rules |-> DefaultCheck,
     column_mapping |-> [passed |-> TRUE, details |-> EmptyDict],
     data_quality   |-> DefaultCheck]

\* the dict built first
InitialResults ==
    [row_count      |-> DefaultCheck,
     duplicates     |-> DefaultCheck,
     null_values    |-> DefaultCheck,
     business_rules |-> DefaultCheck,
     column_mapping |-> DefaultCheck,
     data_quality   |-> DefaultCheck]

\* the message of the Exception the except clause raises
WrapError(cause) == <<"Error during comparison: ", cause>>

\* the except clause hands back what results holds so far
RaiseReturningResults(cause) ==
    /\ pc' = "done"
    /\ outcome' = "returned"
    /\ error' = <<>>
    /\ returned' = results

\* except Exception as e: raise Exception(...): the call ends, nothing is
\* returned
Raise(cause) ==
    /\ pc' = "done"
    /\ outcome' = "raised"
    /\ error' = WrapError(cause)
    /\ returned' = NoValue

\* the next statement is reached
Goto(label) ==
    /\ pc' = label
    /\ UNCHANGED <<outcome, error, returned>>

\* the frame rename returns is dropped: source_df keeps its labels
SourceWithoutRename(df, m) == df

\* if mapping: source_df = source_df.rename(columns=mapping)
SourceAfterMapping(df, m) == IF Truthy(m) THEN Rename(df, m.d) ELSE df

\* the comparator's set of columns present on both sides
CommonColumns(s, t) == Labels(s) \cap Labels(t)

\* the statements that rename and drop, with the first exception they meet
\* ("" when they meet none)
PrepareCause ==
    IF Truthy(mapping) /\ source_arg.isNone
        THEN "'NoneType' object has no attribute 'rename'"
    ELSE IF source_arg.isNone
        THEN "'NoneType' object has no attribute 'drop'"
    ELSE IF ignored_columns.isNone
        THEN "'NoneType' object is not iterable"
    ELSE IF DropRaises(SourceAfterMapping(source_arg, mapping),
                IgnoredPresent(SourceAfterMapping(source_arg, mapping),
                               ignored_columns.items))
        THEN "not found in axis"
    ELSE IF target_arg.isNone
        THEN "'NoneType' object has no attribute 'drop'"
    ELSE IF DropRaises(target_arg,
                IgnoredPresent(target_arg, ignored_columns.items))
        THEN "not found in axis"
    ELSE ""

\* rename and drop, called as they are without inplace=True, change the
\* table they are called on in place: the caller's table becomes the one
\* the local name is bound to
PassedTableChangedInPlace(passed, bound) == bound

\* source_df = source_df.rename(columns=mapping) and source_df =
\* source_df.drop(columns=[...]): rename and drop return a new table, to
\* which the local name is bound; the table the caller passed stays as it
\* was
PassedTable(passed, bound) == passed

\* Apply column mapping, remove ignored columns; when one of the three
\* statements raises, source_df keeps what the statements before it bound
Prepare ==
    /\ pc = "prepare"
    /\ LET renamed == SourceAfterMapping(source_arg, mapping)
           src_labels == IgnoredPresent(renamed, ignored_columns.items)
           tgt_labels == IgnoredPresent(target_arg, ignored_columns.items)
       IN
       IF PrepareCause # ""
       THEN /\ Raise(PrepareCause)
            /\ source_df' =
                  IF source_arg.isNone THEN source_arg
                  ELSE IF ignored_columns.isNone \/ DropRaises(renamed, src_labels)
                       THEN renamed
                       ELSE Drop(renamed, src_labels)
            /\ UNCHANGED target_df
       ELSE /\ source_df' = Drop(renamed, src_labels)
            /\ target_df' = Drop(target_arg, tgt_labels)
            /\ Goto("row_count")
    /\ source_arg' = PassedTable(source_arg, source_df')
    /\ target_arg' = PassedTable(target_arg, target_df')
    /\ UNCHANGED outside
    /\ UNCHANGED <<mapping, ignored_columns, results>>

\* 1. Row Count Check
RowCountResult(s, t) ==
    [passed |-> NRows(s) = NRows(t),
     details |-> [source_count |-> NRows(s),
                  target_count |-> NRows(t),
                  difference |-> IF NRows(s) >= NRows(t)
                                 THEN NRows(s) - NRows(t)
                                 ELSE NRows(t) - NRows(s)]]

RowCountCheck ==
    /\ pc = "row_count"
    /\ results' = [results EXCEPT !.row_count = RowCountResult(source_df, target_df)]
    /\ Goto("duplicates")
    /\ UNCHANGED outside
    /\ UNCHANGED <<source_arg, target_arg, mapping, ignored_columns,
                   source_df, target_df>>

\* 2. Duplicate Check
DuplicatesResult(s, t) ==
    [passed |-> DuplicatedSum(s) = DuplicatedSum(t),
     details |-> [source_duplicates |-> DuplicatedSum(s),
                  target_duplicates |-> DuplicatedSum(t)]]

DuplicateCheck ==
    /\ pc = "duplicates"
    /\ results' = [results EXCEPT !.duplicates = DuplicatesResult(source_df, target_df)]
    /\ Goto("null_values")
    /\ UNCHANGED outside
    /\ UNCHANGED <<source_arg, target_arg, mapping, ignored_columns,
                   source_df, target_df>>

\* the totals of nulls compared, not the per-column counts
NullValuesResultByTotal(s, t) ==
    LET Total(df) ==
            Cardinality({<<i, j>> \in (DOMAIN df.rows) \X (DOMAIN df.columns) :
                            IsNull(df.rows[i][j])})
    IN [passed |-> Total(s) = Total(t),
        details |-> [source_nulls |-> IsnullSumToDict(s),
                     target_nulls |-> IsnullSumToDict(t)]]

\* 3. Null Value Check
NullValuesResult(s, t) ==
    [passed |-> IsnullSumToDict(s) = IsnullSumToDict(t),
     details |-> [source_nulls |-> IsnullSumToDict(s),
                  target_nulls |-> IsnullSumToDict(t)]]

NullValueCheck ==
    /\ pc = "null_values"
    /\ results' = [results EXCEPT !.null_values = NullValuesResult(source_df, target_df)]
    /\ Goto("business_rules")
    /\ UNCHANGED outside
    /\ UNCHANGED <<source_arg, target_arg, mapping, ignored_columns,
                   source_df, target_df>>

\* a != b on two cells
NeCell(a, b) == ~EqCell(a, b)

\* source_df["Column A"] + source_df["Column B"], by row
SourceSum(s) ==
    [i \in 1..NRows(s) |->
        AddCell(Series(s, "Column A")[i], Series(s, "Column B")[i])]

\* the first exception the business rule statements meet ("" when none):
\* a rule column that names two source columns is a frame, not a series; text
\* and numbers do not add; and == and != on two series raise ValueError
\* unless both carry the same index, which for RangeIndex is the same length
BusinessRuleCause(s, t) ==
    IF HasDuplicateLabel(s, "Column A") \/ HasDuplicateLabel(s, "Column B")
        THEN "cannot reindex on an axis with duplicate labels"
    ELSE IF \E i \in 1..NRows(s) :
                AddRaises(Series(s, "Column A")[i], Series(s, "Column B")[i])
        THEN "unsupported operand type(s) for +"
    ELSE IF NRows(s) # NRows(t)
        THEN "Can only compare identically-labeled Series objects"
    ELSE ""

\* the sum taken from the target's own Column A and Column B
BusinessRulesResultWithinTarget(s, t) ==
    LET target_sum == SourceSum(t)
        target_value == Series(t, "Column C")
        rule_check == \A i \in 1..NRows(t) : EqCell(target_sum[i], target_value[i])
    IN [passed |-> rule_check,
        details |-> [rule_satisfied |-> rule_check,
                     mismatches |->
                        Cardinality({i \in 1..NRows(t) :
                                        NeCell(target_sum[i], target_value[i])})]]

BusinessRulesResult(s, t) ==
    LET source_sum == SourceSum(s)
        target_value == Series(t, "Column C")
        rule_check == \A i \in 1..NRows(s) : EqCell(source_sum[i], target_value[i])
    IN [passed |-> rule_check,
        details |-> [rule_satisfied |-> rule_check,
                     mismatches |->
                        Cardinality({i \in 1..NRows(s) :
                                        NeCell(source_sum[i], target_value[i])})]]

\* if all(col in common_columns for col in ["Column A", "Column B", "Column C"])
RuleApplies(s, t) == RuleColumns \subseteq CommonColumns(s, t)

\* 4. Business Rule Check (Column A + Column B = Column C)
BusinessRuleCheck ==
    /\ pc = "business_rules"
    /\ IF RuleApplies(source_df, target_df)
       THEN IF BusinessRuleCause(source_df, target_df) # ""
            THEN /\ Raise(BusinessRuleCause(source_df, target_df))
                 /\ UNCHANGED results
            ELSE /\ results' = [results EXCEPT !.business_rules =
                                   BusinessRulesResult(source_df, target_df)]
                 /\ Goto("data_quality")
       ELSE /\ UNCHANGED results
            /\ Goto("data_quality")
    /\ UNCHANGED outside
    /\ UNCHANGED <<source_arg, target_arg, mapping, ignored_columns,
                   source_df, target_df>>

Expectation(type, success) == [expectation_type |-> type, success |-> success]

\* expect_table_row_count_to_be_between(min_value=1, max_value=None)
ExpectRowCount(df) ==
    Expectation("expect_table_row_count_to_be_between", NRows(df) >= MinRowCount)

\* expect_table_columns_to_match_ordered_list(column_list)
ExpectColumnsMatch(df, column_list) ==
    Expectation("expect_table_columns_to_match_ordered_list",
                df.columns = column_list)

\* expect_column_values_to_be_of_type(column, type_) on a pandas dataset: a
\* column whose dtype is not object, and any column asked for "object", is
\* judged by its dtype; an object column asked for another type is judged
\* value by value over its non-null values, and text is no int64
ValuesOfType(df, column, type_) ==
    IF DType(df, column) # "object" \/ type_ = "object"
    THEN DType(df, column) = type_
    ELSE \A i \in 1..NRows(df) : IsNull(Series(df, column)[i])

ExpectType(df, column, type_) ==
    Expectation("expect_column_values_to_be_of_type",
                ValuesOfType(df, column, type_))

\* the else branch lost: int64 is expected of every column
ExpectedTypeAlwaysInt64(s, column) == "int64"

\* if source_df[column].dtype in ['int64', 'float64']: "int64" else "object"
ExpectedType(s, column) ==
    IF DType(s, column) \in {"int64", "float64"} THEN "int64" ELSE "object"

\* the four basic expectations, in the order of the list
BasicExpectations(s, t) ==
    <<ExpectRowCount(s), ExpectColumnsMatch(s, s.columns),
      ExpectRowCount(t), ExpectColumnsMatch(t, t.columns)>>

RECURSIVE ColumnExpectations(_, _, _)
\* the two expectations appended for every column of cols
ColumnExpectations(s, t, cols) ==
    IF cols = {} THEN <<>>
    ELSE LET column == CHOOSE c \in cols : TRUE IN
         <<ExpectType(s, column, ExpectedType(s, column)),
           ExpectType(t, column, ExpectedType(s, column))>>
         \o ColumnExpectations(s, t, cols \ {column})

\* the list as a bag: the columns are visited in the iteration order of a
\* Python set, so the order of the entries after the first four is arbitrary
ListToBag(list) ==
    [e \in Range(list) |-> Cardinality({i \in DOMAIN list : list[i] = e})]

AllExpectations(s, t) ==
    BasicExpectations(s, t) \o ColumnExpectations(s, t, CommonColumns(s, t))

\* source_df[column].dtype, outside the inner try, for a label that names
\* two source columns
DataQualityCause(s, t) ==
    IF \E c \in CommonColumns(s, t) : HasDuplicateLabel(s, c)
    THEN "'DataFrame' object has no attribute 'dtype'"
    ELSE ""

DataQualityResult(s, t) ==
    [passed |-> \A i \in DOMAIN AllExpectations(s, t) :
                    AllExpectations(s, t)[i].success,
     details |-> [expectations |-> ListToBag(AllExpectations(s, t))]]

\* 5. Great Expectations Data Quality Checks
DataQualityCheck ==
    /\ pc = "data_quality"
    /\ IF DataQualityCause(source_df, target_df) # ""
       THEN /\ Raise(DataQualityCause(source_df, target_df))
            /\ UNCHANGED results
       ELSE /\ results' = [results EXCEPT !.data_quality =
                              DataQualityResult(source_df, target_df)]
            /\ Goto("return")
    /\ UNCHANGED outside
    /\ UNCHANGED <<source_arg, target_arg, mapping, ignored_columns,
                   source_df, target_df>>

\* return results
Return ==
    /\ pc = "return"
    /\ pc' = "done"
    /\ outcome' = "returned"
    /\ returned' = results
    /\ UNCHANGED outside
    /\ UNCHANGED <<source_arg, target_arg, mapping, ignored_columns,
                   source_df, target_df, results, error>>

----------------------------------------------------------------------------
(* The calls explored: every pair of the tables below with every mapping   *)
(* and every ignored list below.                                           *)

LayoutA == <<"Column A", "Column B", "Column C", "Text Column">>
LayoutX == <<"X", "Column B", "Column C", "Text Column">>

RowPoolA ==
    { <<IntCell(0), IntCell(1), IntCell(1), StrCell(1)>>,
      <<IntCell(1), IntCell(1), IntCell(1), NULL>>,
      <<NULL, IntCell(1), IntCell(1), StrCell(1)>> }

RowPoolX ==
    { <<IntCell(0), IntCell(1), IntCell(1), StrCell(1)>>,
      <<IntCell(1), IntCell(1), IntCell(1), StrCell(1)>> }

SeqsUpTo(S, n) == UNION {[1..k -> S] : k \in 0..n}

Tables ==
    {NoneTable, DataFrame(<<>>, <<>>)}
    \cup {DataFrame(LayoutA, rws) : rws \in SeqsUpTo(RowPoolA, MaxRows)}
    \cup {DataFrame(LayoutX, rws) : rws \in SeqsUpTo(RowPoolX, MaxRows)}

Mappings ==
    {NoneArg,
     Dict(<<>>),
     Dict([k \in {"X"} |-> "Column A"]),
     Dict([k \in {"Column B"} |-> "Column C"])}

IgnoredLists ==
    {NoneArg,
     List(<<>>),
     List(<<"Column C">>),
     List(<<"Text Column", "Z">>)}

\* no call of load_data is under way
NoLoad ==
    [pc |-> "idle", source_type |-> "", input_obj |-> [kind |-> "None"],
     separator |-> "None", env |-> <<>>, content |-> <<>>,
     temp_file |-> FALSE, reader |-> "none", outcome |-> "idle",
     df |-> NoneTable, error |-> <<>>]

\* no metadata spreadsheet has been read
NoProcessor ==
    [pc |-> "idle", metadata_df |-> <<>>, row |-> 0, comparison_pairs |-> <<>>]

\* no call of auto_map_columns is under way
NoMapper ==
    [pc |-> "idle", source_cols |-> <<>>, target_cols |-> <<>>,
     outcome |-> "idle", mapping |-> EmptyDict]

\* no call of generate_data_diff_report is under way
NoDiff ==
    [pc |-> "idle", source_df |-> NoneTable, target_df |-> NoneTable,
     now |-> 0, outcome |-> "idle", diff_df |-> <<>>]

\* nothing has been written under REPORTS_DIR; the clock starts at 0
NoReports == [now |-> 0, written |-> <<>>]

\* st.session_state of a new session, once main() has run to line 186: the
\* keys not yet written read as empty
NewSession ==
    [mapping_done |-> FALSE, auto_mapping |-> EmptyDict,
     ignored_columns |-> {}, source_columns |-> <<>>,
     target_columns |-> <<>>, source_data |-> NoneTable,
     target_data |-> NoneTable]

\* the page script waits for a click; handler is the handler of the last
\* click and runs counts the clicks
NoRun ==
    [pc |-> "idle", handler |-> "none", runs |-> 0, comparison_pairs |-> <<>>,
     i |-> 0, choice |-> <<>>, source_data |-> NoneTable,
     target_data |-> NoneTable, steps |-> <<>>]

\* the rest of the program is at rest, but for one component
AtRest(component) ==
    /\ IF component = "perform_comparison" THEN TRUE
       ELSE /\ source_arg = NoneTable /\ target_arg = NoneTable
            /\ mapping = NoneArg /\ ignored_columns = NoneArg
            /\ source_df = NoneTable /\ target_df = NoneTable
            /\ results = InitialResults
            /\ pc = "idle" /\ outcome = "idle"
            /\ returned = NoValue /\ error = <<>>
    /\ IF component = "load_data" THEN TRUE ELSE loader = NoLoad
    /\ IF component = "MetadataProcessor" THEN TRUE ELSE processor = NoProcessor
    /\ IF component = "auto_map_columns" THEN TRUE ELSE mapper = NoMapper
    /\ IF component = "generate_data_diff_report" THEN TRUE
       ELSE differ = NoDiff
    /\ IF component = "main" THEN TRUE
       ELSE app = NoRun /\ session = NewSession
    /\ reports = NoReports

Init ==
    /\ AtRest("perform_comparison")
    /\ source_arg \in Tables
    /\ target_arg \in Tables
    /\ mapping \in Mappings
    /\ ignored_columns \in IgnoredLists
    /\ source_df = source_arg
    /\ target_df = target_arg
    /\ results = InitialResults
    /\ pc = "prepare"
    /\ outcome = "running"
    /\ returned = NoValue
    /\ error = <<>>

Next ==
    \/ Prepare
    \/ RowCountCheck
    \/ DuplicateCheck
    \/ NullValueCheck
    \/ BusinessRuleCheck
    \/ DataQualityCheck
    \/ Return

Spec == Init /\ [][Next]_vars

----------------------------------------------------------------------------
(* What the claims speak of, stated from the arguments of the call *)

Done == pc = "done"
Returned == pc = "done" /\ outcome = "returned"
Raised == pc = "done" /\ outcome = "raised"

Populated(check) == DOMAIN check.details # {}

ArgsAreTables == ~source_arg.isNone /\ ~target_arg.isNone

\* both tables are tables, the mapping is a dict and the ignored list a list
ArgsWellTyped == ArgsAreTables /\ ~mapping.isNone /\ ~ignored_columns.isNone

\* an empty mapping and no ignored columns
PlainCall ==
    /\ ArgsAreTables
    /\ ~mapping.isNone /\ DOMAIN mapping.d = {}
    /\ ~ignored_columns.isNone /\ ignored_columns.items = <<>>

IdenticalCall == PlainCall /\ source_arg = target_arg

AbsDiff(a, b) == IF a >= b THEN a - b ELSE b - a

\* the rows of tbl that repeat an earlier row of tbl
RepeatCount(tbl) ==
    Cardinality({i \in DOMAIN tbl.rows :
                    \E k \in DOMAIN tbl.rows : k < i /\ tbl.rows[k] = tbl.rows[i]})

\* the nulls of tbl in its columns labelled name
NullsIn(tbl, name) ==
    Cardinality({<<i, j>> \in (DOMAIN tbl.rows) \X (DOMAIN tbl.columns) :
                    tbl.columns[j] = name /\ tbl.rows[i][j][1] = "null"})

TotalNulls(tbl) ==
    Cardinality({<<i, j>> \in (DOMAIN tbl.rows) \X (DOMAIN tbl.columns) :
                    tbl.rows[i][j][1] = "null"})

\* the cell of row i of tbl in its (only) column labelled name
CellAt(tbl, i, name) ==
    tbl.rows[i][CHOOSE j \in DOMAIN tbl.columns : tbl.columns[j] = name]

\* a + b = c on three cells: integers that add up, or text that concatenates
AddsUp(a, b, c) ==
    /\ a[1] = b[1] /\ b[1] = c[1] /\ a[1] \in {"int", "str"}
    /\ a[2] + b[2] = c[2]

\* row i of tbl satisfies Column A + Column B = Column C
RowSatisfiesRule(tbl, i) ==
    AddsUp(CellAt(tbl, i, "Column A"), CellAt(tbl, i, "Column B"),
           CellAt(tbl, i, "Column C"))

\* row i: Column A + Column B of the source equals Column C of the target
RowPairSatisfiesRule(s, t, i) ==
    AddsUp(CellAt(s, i, "Column A"), CellAt(s, i, "Column B"),
           CellAt(t, i, "Column C"))

\* the labels of the source after the rename and the exclusion, and of the
\* target after the exclusion
ExpectedSourceColumns ==
    LET NotIgnored(c) == c \notin Range(ignored_columns.items)
        renamed == [j \in DOMAIN source_arg.columns |->
                       IF source_arg.columns[j] \in DOMAIN mapping.d
                       THEN mapping.d[source_arg.columns[j]]
                       ELSE source_arg.columns[j]]
    IN SelectSeq(renamed, NotIgnored)

ExpectedTargetColumns ==
    LET NotIgnored(c) == c \notin Range(ignored_columns.items)
    IN SelectSeq(target_arg.columns, NotIgnored)

\* every column of tbl is integers without null, or holds text
IntegerOrTextColumns(tbl) ==
    \A j \in DOMAIN tbl.columns :
        \/ \A i \in DOMAIN tbl.rows : tbl.rows[i][j][1] = "int"
        \/ \E i \in DOMAIN tbl.rows : tbl.rows[i][j][1] = "str"

\* every column of tbl is numeric (integers, NaN) or text (text, NaN)
NumericOrTextColumns(tbl) ==
    \A j \in DOMAIN tbl.columns :
        \/ \A i \in DOMAIN tbl.rows : tbl.rows[i][j][1] \in {"int", "null"}
        \/ \A i \in DOMAIN tbl.rows : tbl.rows[i][j][1] \in {"str", "null"}

----------------------------------------------------------------------------
----------------------------------------------------------------------------
(* C2: for every two tables, every mapping and every ignored list a result *)
(* is returned, in which row_count.passed is true exactly when the two     *)
(* tables have the same number of rows, details.source_count and           *)
(* details.target_count are the two row counts and details.difference is   *)
(* their absolute difference.                                              *)
C2_RowCountForAllInputs ==
    (Done /\ ArgsWellTyped) =>
        /\ outcome = "returned"
        /\ returned.row_count.passed <=>
              Len(source_arg.rows) = Len(target_arg.rows)
        /\ returned.row_count.details.source_count = Len(source_arg.rows)
        /\ returned.row_count.details.target_count = Len(target_arg.rows)
        /\ returned.row_count.details.difference =
              AbsDiff(Len(source_arg.rows), Len(target_arg.rows))

----------------------------------------------------------------------------
\* source_arg is a table followed by a copy of one of its rows
SourceHasAppendedCopy ==
    /\ Len(source_arg.rows) >= 2
    /\ \E k \in 1..(Len(source_arg.rows) - 1) :
          source_arg.rows[k] = source_arg.rows[Len(source_arg.rows)]

TargetHasAppendedCopy ==
    /\ Len(target_arg.rows) >= 2
    /\ \E k \in 1..(Len(target_arg.rows) - 1) :
          target_arg.rows[k] = target_arg.rows[Len(target_arg.rows)]

\* tbl without its last row
Front(tbl) == [tbl EXCEPT !.rows = SubSeq(tbl.rows, 1, Len(tbl.rows) - 1)]

(* C3: duplicates.passed is true exactly when the number of rows that      *)
(* repeat an earlier row is the same on both sides; from two sides with    *)
(* equal duplicate counts, a copy of an existing row appended to both      *)
(* sides keeps duplicates.passed true, and appended to one side only makes *)
(* it false.                                                               *)
C3_DuplicateInjection ==
    (Done /\ PlainCall) =>
        /\ outcome = "returned" =>
              (returned.duplicates.passed <=>
                  RepeatCount(source_arg) = RepeatCount(target_arg))
        /\ ( /\ SourceHasAppendedCopy /\ TargetHasAppendedCopy
             /\ RepeatCount(Front(source_arg)) = RepeatCount(Front(target_arg)) )
              => (outcome = "returned" /\ returned.duplicates.passed)
        /\ ( /\ SourceHasAppendedCopy
             /\ RepeatCount(Front(source_arg)) = RepeatCount(target_arg) )
              => (outcome = "returned" /\ ~returned.duplicates.passed)
        /\ ( /\ TargetHasAppendedCopy
             /\ RepeatCount(source_arg) = RepeatCount(Front(target_arg)) )
              => (outcome = "returned" /\ ~returned.duplicates.passed)

----------------------------------------------------------------------------
\* the nulls of the source in the columns that carry the label name after
\* the rename
SourceNullsAfterRename(name) ==
    Cardinality({<<i, j>> \in (DOMAIN source_arg.rows) \X (DOMAIN source_arg.columns) :
        /\ name = (IF source_arg.columns[j] \in DOMAIN mapping.d
                   THEN mapping.d[source_arg.columns[j]]
                   ELSE source_arg.columns[j])
        /\ source_arg.rows[i][j][1] = "null"})

(* C4: in a returned result null_values.passed is true exactly when the    *)
(* two sides, after rename and exclusion, have the same set of columns and *)
(* the same number of nulls in every column; equal totals do not make it   *)
(* pass.                                                                   *)
C4_NullValuesPerColumn ==
    Returned =>
        (returned.null_values.passed <=>
            /\ Range(ExpectedSourceColumns) = Range(ExpectedTargetColumns)
            /\ \A name \in Range(ExpectedTargetColumns) :
                  SourceNullsAfterRename(name) = NullsIn(target_arg, name))

\* the same columns and the same total of nulls on both sides, in different
\* columns: not passed
C4_Witness ==
    /\ Returned
    /\ Range(source_df.columns) = Range(target_df.columns)
    /\ TotalNulls(source_df) = TotalNulls(target_df)
    /\ TotalNulls(source_df) > 0
    /\ ~returned.null_values.passed

----------------------------------------------------------------------------
(* C5: in a returned result business_rules is at its default (passed false,*)
(* details empty) unless Column A, Column B and Column C all exist on both *)
(* sides after the rename of the source and the exclusion on both sides;   *)
(* when they do, its details are populated.                                *)
C5_BusinessRulesOnlyWithRuleColumns ==
    Returned =>
        /\ Populated(returned.business_rules) <=>
              /\ RuleColumns \subseteq Range(ExpectedSourceColumns)
              /\ RuleColumns \subseteq Range(ExpectedTargetColumns)
        /\ ~Populated(returned.business_rules) =>
              ~returned.business_rules.passed
        /\ Populated(returned.business_rules) =>
              DOMAIN returned.business_rules.details = {"rule_satisfied", "mismatches"}

\* the rule is evaluated on a source that has Column A only by the rename
C5_Witness ==
    /\ Returned
    /\ Populated(returned.business_rules)
    /\ "Column A" \notin Range(source_arg.columns)
    /\ ignored_columns.items # <<>>

----------------------------------------------------------------------------
----------------------------------------------------------------------------
(* C7: data_quality.passed is true exactly when every recorded expectation *)
(* succeeded, the expectations being two per side and two per column       *)
(* present on both sides; for two identical tables with at least one row   *)
(* whose columns are numeric or text the check passes, and it fails        *)
(* whenever either side has no rows.                                       *)
C7_DataQuality ==
    Returned =>
        /\ returned.data_quality.passed <=>
              \A e \in BagToSet(returned.data_quality.details.expectations) :
                  e.success
        /\ BagCardinality(returned.data_quality.details.expectations) =
              4 + 2 * Cardinality(Range(ExpectedSourceColumns)
                                    \cap Range(ExpectedTargetColumns))
        /\ ( /\ IdenticalCall
             /\ source_arg.rows # <<>>
             /\ NumericOrTextColumns(source_arg) )
              => returned.data_quality.passed
        /\ (source_arg.rows = <<>> \/ target_arg.rows = <<>>)
              => ~returned.data_quality.passed

----------------------------------------------------------------------------
(* C8: column_mapping is never populated: at every point of every call it  *)
(* is at its default, and every returned result has column_mapping.passed  *)
(* false and column_mapping.details empty.                                 *)
C8_ColumnMappingNeverPopulated ==
    /\ ~results.column_mapping.passed
    /\ ~Populated(results.column_mapping)
    /\ Returned =>
          /\ ~returned.column_mapping.passed
          /\ ~Populated(returned.column_mapping)

\* a result returned by a call whose mapping renamed a source column to the
\* label of a target column
C8_Witness ==
    /\ Returned
    /\ Truthy(mapping)
    /\ \E c \in DOMAIN mapping.d :
          /\ c \in Range(source_arg.columns)
          /\ mapping.d[c] \in Range(target_arg.columns)
          /\ mapping.d[c] \in Range(source_df.columns)
    /\ ~returned.column_mapping.passed

----------------------------------------------------------------------------
CheckNames ==
    {"row_count", "duplicates", "null_values", "business_rules",
     "column_mapping", "data_quality"}

(* C9: a call ends either by returning a complete result (all six checks,  *)
(* the four unconditional ones populated) or by raising one error whose    *)
(* message is the generic prefix followed by the text of the cause, and    *)
(* then nothing is returned; it raises when a table argument or the        *)
(* ignored list is None.                                                   *)
C9_ResultOrError ==
    /\ ~Done => (outcome = "running" /\ DOMAIN returned = {} /\ error = <<>>)
    /\ Done =>
          \/ /\ outcome = "returned"
             /\ error = <<>>
             /\ DOMAIN returned = CheckNames
             /\ \A n \in CheckNames : DOMAIN returned[n] = {"passed", "details"}
             /\ Populated(returned.row_count)
             /\ Populated(returned.duplicates)
             /\ Populated(returned.null_values)
             /\ Populated(returned.data_quality)
          \/ /\ outcome = "raised"
             /\ DOMAIN returned = {}
             /\ Len(error) = 2
             /\ error[1] = "Error during comparison: "
             /\ error[2] # ""
    /\ (Done /\ (source_arg.isNone \/ target_arg.isNone \/ ignored_columns.isNone))
          => outcome = "raised"

\* a call that raised after some of its checks were already written to the
\* local results
C9_Witness ==
    /\ Raised
    /\ Populated(results.row_count)
    /\ Populated(results.null_values)
    /\ ~Populated(results.data_quality)
    /\ DOMAIN returned = {}

----------------------------------------------------------------------------
(* C10: the rename is applied to the source only and the ignored names     *)
(* that are columns of a side are removed from that side before any check  *)
(* is computed: once the preparation is over the columns of the source are *)
(* its renamed columns without the ignored ones, the columns of the target *)
(* are its own columns without the ignored ones, with their cells; the     *)
(* checks see these tables; an ignored name absent from a side raises      *)
(* nothing.                                                                *)
C10_RenameSourceOnlyThenDrop ==
    /\ pc = "prepare" => results = InitialResults
    /\ (ArgsAreTables /\ ~ignored_columns.isNone /\ pc # "prepare") =>
          /\ source_df.columns = ExpectedSourceColumns
          /\ target_df.columns = ExpectedTargetColumns
          /\ Len(source_df.rows) = Len(source_arg.rows)
          /\ Len(target_df.rows) = Len(target_arg.rows)
          /\ \A i \in DOMAIN target_df.rows : \A k \in DOMAIN target_df.columns :
                target_df.rows[i][k] = CellAt(target_arg, i, target_df.columns[k])
          /\ ~(outcome = "raised" /\ error[2] = "not found in axis")
    /\ Returned =>
          /\ DOMAIN returned.null_values.details.source_nulls =
                Range(ExpectedSourceColumns)
          /\ DOMAIN returned.null_values.details.target_nulls =
                Range(ExpectedTargetColumns)

\* a returned call whose mapping renamed column X of the source while the
\* target kept its column X, with an ignored name that neither side has
C10_Witness ==
    /\ Returned
    /\ "X" \in DOMAIN mapping.d
    /\ "X" \in Range(source_arg.columns) /\ "X" \notin Range(source_df.columns)
    /\ "X" \in Range(target_arg.columns) /\ "X" \in Range(target_df.columns)
    /\ "Z" \in Range(ignored_columns.items)
    /\ "Text Column" \notin Range(source_df.columns) \cup Range(target_df.columns)

----------------------------------------------------------------------------
(* load_data (data_processor.py).  The argument input_obj is None, an      *)
(* uploaded file object or a str (a path, a query or a URL).  What a file   *)
(* holds is its length in bytes and whether it parses as delimited text,    *)
(* and then to which table.  A length is written <<g, r>> for g GiB and r   *)
(* further bytes (r below one GiB).  Databases, HTTP endpoints, zip and     *)
(* parquet payloads are outside the program: a call that reaches one of     *)
(* them comes back with a table or with an exception.                       *)

GiB == 1024 * 1024 * 1024

ThresholdGiB == 3

\* len(content) > 3 * 1024 * 1024 * 1024
ExceedsThreshold(size) ==
    \/ size[1] > ThresholdGiB
    \/ size[1] = ThresholdGiB /\ size[2] > 0

NoneInput == [kind |-> "None"]
FileObject(content) == [kind |-> "file", content |-> content]
StrInput(text) == [kind |-> "str", text |-> text]

Content(size, parses, table) == [size |-> size, parses |-> parses, table |-> table]

DelimitedTypes == {"CSV file", "Dat file"}
SqlTypes == {"SQL Server", "Teradata"}

\* os.getenv(f"{source_type.replace(' ', '_').upper()}_CONNECTION")
ConnectionVariable(source_type) ==
    IF source_type = "SQL Server" THEN "SQL_SERVER_CONNECTION"
    ELSE "TERADATA_CONNECTION"

\* if connection_string: neither unset (None) nor the empty string
Configured(env, variable) == env[variable] \notin {"None", ""}

LoadError(source_type, cause) ==
    <<"Error loading data from ", source_type, ": ", cause>>

LoadCall(source_type, input_obj, separator, env) ==
    [pc |-> "dispatch", source_type |-> source_type, input_obj |-> input_obj,
     separator |-> separator, env |-> env, content |-> <<>>,
     temp_file |-> FALSE, reader |-> "none", outcome |-> "running",
     df |-> NoneTable, error |-> <<>>]

\* return df
LoadReturn(l, table) ==
    [l EXCEPT !.pc = "done", !.outcome = "returned", !.df = table]

\* except Exception as e: raise Exception(...)
LoadRaise(l, cause) ==
    [l EXCEPT !.pc = "done", !.outcome = "raised",
              !.error = LoadError(l.source_type, cause)]

\* a missing input is reported as an error
MissingInputRaises(l) == LoadRaise(l, "missing input")

\* no branch returned: return pd.DataFrame()
ReturnEmptyTable(l) == LoadReturn(l, DataFrame(<<>>, <<>>))

\* which statement of load_data the arguments lead to
LoadBranch(l) ==
    LET t == l.source_type
        given == l.input_obj.kind # "None"
    IN  IF t \in DelimitedTypes THEN (IF given THEN "delimited" ELSE "fall")
        ELSE IF t = "Parquet file" THEN (IF given THEN "parquet" ELSE "fall")
        ELSE IF t = "Flat files inside zipped folder"
             THEN (IF given THEN "external" ELSE "fall")
        ELSE IF t \in SqlTypes
             THEN (IF Configured(l.env, ConnectionVariable(t))
                   THEN "external" ELSE "fall")
        ELSE IF t = "Stored Procs"
             THEN (IF Configured(l.env, "SQL_SERVER_CONNECTION")
                   THEN "external" ELSE "fall")
        ELSE IF t = "API"
             THEN (IF l.input_obj.kind = "str" THEN "external" ELSE "fall")
        ELSE "fall"

\* the tables a file, a database or an endpoint may hold
LoadableTables ==
    { DataFrame(LayoutA, <<RowA>>) : RowA \in RowPoolA }

\* what comes back from outside the program: a table, or an exception
ExternalOutcomes == {NoneTable} \cup LoadableTables


\* the dispatch on source_type, up to the first read
LoadDispatch ==
    /\ loader.pc = "dispatch"
    /\ \/ /\ LoadBranch(loader) \in {"delimited", "parquet"}
          /\ loader.input_obj.kind = "str"
          /\ loader' = LoadRaise(loader, "'str' object has no attribute 'read'")
       \/ /\ LoadBranch(loader) = "delimited"
          /\ loader.input_obj.kind = "file"
          /\ loader' = [loader EXCEPT
                           !.content = loader.input_obj.content,
                           !.pc = IF ExceedsThreshold(loader.input_obj.content.size)
                                  THEN "spool" ELSE "read_csv"]
       \/ /\ \/ LoadBranch(loader) = "external"
             \/ LoadBranch(loader) = "parquet" /\ loader.input_obj.kind = "file"
          /\ \E back \in ExternalOutcomes :
                loader' = IF back.isNone THEN LoadRaise(loader, "external")
                          ELSE LoadReturn(loader, back)
       \/ /\ LoadBranch(loader) = "fall"
          /\ loader' = ReturnEmptyTable(loader)
    /\ UNCHANGED <<comparison, processor, mapper, differ, app, session, reports>>

\* df = pd.read_csv(io.BytesIO(content), sep=separator or ","); return df
ReadCsv ==
    /\ loader.pc = "read_csv"
    /\ loader' = IF loader.content.parses
                 THEN LoadReturn([loader EXCEPT !.reader = "pandas"],
                                 loader.content.table)
                 ELSE LoadRaise(loader, "parse")
    /\ UNCHANGED <<comparison, processor, mapper, differ, app, session, reports>>

\* with open(temp_file, "wb") as f: f.write(content)
Spool ==
    /\ loader.pc = "spool"
    /\ loader' = [loader EXCEPT !.temp_file = TRUE, !.pc = "chunked"]
    /\ UNCHANGED <<comparison, processor, mapper, differ, app, session, reports>>

\* ddf = dd.read_csv(temp_file, sep=separator or ","); df = ddf.compute()
ChunkedRead ==
    /\ loader.pc = "chunked"
    /\ loader' = IF loader.content.parses
                 THEN [loader EXCEPT !.reader = "dask", !.pc = "remove",
                                     !.df = loader.content.table]
                 ELSE LoadRaise(loader, "parse")
    /\ UNCHANGED <<comparison, processor, mapper, differ, app, session, reports>>

\* os.remove(temp_file); return df
RemoveTemp ==
    /\ loader.pc = "remove"
    /\ loader' = LoadReturn([loader EXCEPT !.temp_file = FALSE], loader.df)
    /\ UNCHANGED <<comparison, processor, mapper, differ, app, session, reports>>

----------------------------------------------------------------------------
(* The calls of load_data explored *)

SourceOptions ==
    <<"CSV file", "Dat file", "SQL Server", "Stored Procs",
      "Teradata", "API", "Parquet file", "Flat files inside zipped folder">>

SourceTypes == Range(SourceOptions) \cup {"Excel file"}

Sizes ==
    { <<0, 0>>, <<0, 1>>, <<ThresholdGiB - 1, GiB - 1>>, <<ThresholdGiB, 0>>,
      <<ThresholdGiB, 1>>, <<ThresholdGiB + 1, 0>> }

FileContents ==
    { Content(size, FALSE, NoneTable) : size \in Sizes }
    \cup { Content(size, TRUE, table) :
              size \in Sizes \ {<<0, 0>>}, table \in LoadableTables }

LoadInputs ==
    {NoneInput, StrInput("test_data/source.csv")}
    \cup { FileObject(content) : content \in FileContents }

Environments ==
    [{"SQL_SERVER_CONNECTION", "TERADATA_CONNECTION"} -> {"None", "", "dsn"}]

InitLoad ==
    /\ AtRest("load_data")
    /\ \E source_type \in SourceTypes, input_obj \in LoadInputs,
          separator \in {"None", ","}, env \in Environments :
          loader = LoadCall(source_type, input_obj, separator, env)

NextLoad ==
    \/ LoadDispatch
    \/ ReadCsv
    \/ Spool
    \/ ChunkedRead
    \/ RemoveTemp

SpecLoad == InitLoad /\ [][NextLoad]_vars

----------------------------------------------------------------------------
(* What the claims on load_data speak of *)

LoadDone == loader.pc = "done"

FileTypes ==
    {"CSV file", "Dat file", "Parquet file", "Flat files inside zipped folder"}

Unset(value) == value = "None" \/ value = ""

\* the label is not a recognized one, or it is and its input is missing
InputMissing ==
    \/ loader.source_type \notin Range(SourceOptions)
    \/ loader.source_type \in FileTypes /\ loader.input_obj = NoneInput
    \/ loader.source_type = "SQL Server"
          /\ Unset(loader.env["SQL_SERVER_CONNECTION"])
    \/ loader.source_type = "Teradata"
          /\ Unset(loader.env["TERADATA_CONNECTION"])
    \/ loader.source_type = "Stored Procs"
          /\ Unset(loader.env["SQL_SERVER_CONNECTION"])
    \/ loader.source_type = "API" /\ loader.input_obj.kind # "str"

(* C11: load_data returns the empty table (no rows, no columns) and does   *)
(* not raise whenever the source-type label is not a recognized one, or is *)
(* recognized but its input is missing: None in place of the file object   *)
(* of a file type, no connection string configured for a SQL or            *)
(* stored-procedure type, an input that is not a str for the API type.     *)
C11_EmptyTableOnMissingInput ==
    (LoadDone /\ InputMissing) =>
        /\ loader.outcome = "returned"
        /\ loader.df = DataFrame(<<>>, <<>>)
        /\ loader.error = <<>>
        /\ ~loader.temp_file

C11_Witness ==
    /\ LoadDone
    /\ loader.source_type = "API"
    /\ loader.input_obj.kind = "file"
    /\ loader.outcome = "returned"
    /\ loader.df = DataFrame(<<>>, <<>>)

(* C12: delimited text strictly larger than 3 GiB is written to the        *)
(* temporary file and parsed by the chunked reader, delimited text of at   *)
(* most 3 GiB is parsed in memory and no file is created, and whenever     *)
(* load_data has finished, by returning or by raising, the temporary file  *)
(* does not exist.                                                         *)
C12_TemporaryFile ==
    /\ loader.reader = "dask" =>
          ExceedsThreshold(loader.content.size)
    /\ loader.reader = "pandas" =>
          ~ExceedsThreshold(loader.content.size) /\ ~loader.temp_file
    /\ (loader.pc \in {"read_csv"}) => ~loader.temp_file
    /\ (LoadDone /\ loader.outcome = "returned"
          /\ loader.source_type \in DelimitedTypes
          /\ loader.input_obj.kind = "file") =>
          loader.reader = (IF ExceedsThreshold(loader.input_obj.content.size)
                           THEN "dask" ELSE "pandas")
    /\ LoadDone => ~loader.temp_file

----------------------------------------------------------------------------
(* MetadataProcessor (metadata_processor.py).  The text of the cells the   *)
(* code takes apart (SkipFile, ColumnMapping, IgnoredColumns) is a list of *)
(* characters; such a cell is [nan |-> FALSE, chars |-> text], or NaN for  *)
(* an empty cell.  A column the sheet does not have reads as the default   *)
(* of row.get, the empty text.  The other cells are copied as they are,    *)
(* "nan" standing for an empty one.                                        *)

Text(chars) == [nan |-> FALSE, chars |-> chars]
NaN == [nan |-> TRUE, chars |-> <<>>]

\* str(value)
Str(cell) == IF cell.nan THEN <<"n", "a", "n">> ELSE cell.chars

\* str.strip(), left as it is
StripNothing(s) == s

RECURSIVE Strip(_)
\* str.strip()
Strip(s) ==
    IF s = <<>> THEN s
    ELSE IF Head(s) = " " THEN Strip(Tail(s))
    ELSE IF s[Len(s)] = " " THEN Strip(SubSeq(s, 1, Len(s) - 1))
    ELSE s

RECURSIVE Split(_, _)
\* str.split(sep): the pieces between the separators, empty ones included
Split(s, sep) ==
    IF \A i \in DOMAIN s : s[i] # sep THEN <<s>>
    ELSE LET i == CHOOSE k \in DOMAIN s :
                     s[k] = sep /\ \A j \in 1..(k - 1) : s[j] # sep
         IN  <<SubSeq(s, 1, i - 1)>> \o Split(SubSeq(s, i + 1, Len(s)), sep)

\* str.startswith(prefix) for a one-character prefix
StartsWith(s, prefix) == s # <<>> /\ s[1] = prefix

\* mapping[key] = value
SetItem(m, key, value) ==
    [k \in DOMAIN m \cup {key} |-> IF k = key THEN value ELSE m[k]]

RECURSIVE MapPairs(_, _, _)
\* for pair in pairs: source, target = pair.split(':'); mapping[...] = ...
\* inside try ... except: pass, so the loop ends at the first pair that
\* does not unpack and mapping keeps what it holds
MapPairs(pairs, i, m) ==
    IF i > Len(pairs) THEN m
    ELSE LET parts == Split(pairs[i], ":")
         IN  IF Len(parts) # 2 THEN m
             ELSE MapPairs(pairs, i + 1,
                           SetItem(m, Strip(parts[1]), Strip(parts[2])))

\* _get_column_mapping(row)
GetColumnMapping(mapping_str) ==
    IF ~mapping_str.nan /\ mapping_str.chars # <<>>
    THEN MapPairs(Split(mapping_str.chars, ","), 1, EmptyDict)
    ELSE EmptyDict

\* _get_ignored_columns(row)
GetIgnoredColumns(ignored_str) ==
    IF ~ignored_str.nan /\ ignored_str.chars # <<>>
    THEN LET cols == Split(ignored_str.chars, ",")
         IN  [i \in DOMAIN cols |-> Strip(cols[i])]
    ELSE <<>>

\* the row is skipped only when the cell begins with "#" as written
SkipMarkedAsWritten(row) == StartsWith(Str(row.SkipFile), "#")

\* str(row.get('SkipFile', '')).strip().startswith('#')
SkipMarked(row) == StartsWith(Strip(Str(row.SkipFile)), "#")

\* pair = {...}
Pair(row) ==
    [source_file |-> row.Filename1,
     target_file |-> row.Filename2,
     comparison_type |-> row.ComparisonType,
     source_type |-> "CSV file",
     target_type |-> "CSV file",
     source_separator |-> row.Separator1,
     target_separator |-> row.Separator2,
     mapping |-> GetColumnMapping(row.ColumnMapping),
     ignored_columns |-> GetIgnoredColumns(row.IgnoredColumns)]

\* MetadataProcessor(metadata_file) followed by get_comparison_pairs()
ProcessorCall(metadata_df) ==
    [pc |-> "rows", metadata_df |-> metadata_df, row |-> 1,
     comparison_pairs |-> <<>>]


\* one turn of for _, row in self.metadata_df.iterrows()
ProcessRow ==
    /\ processor.pc = "rows"
    /\ processor.row <= Len(processor.metadata_df)
    /\ LET row == processor.metadata_df[processor.row]
       IN  processor' =
              [processor EXCEPT
                 !.row = @ + 1,
                 !.comparison_pairs =
                    IF ~SkipMarked(row) /\ row.ComparisonType = "Feed To Feed"
                    THEN Append(@, Pair(row)) ELSE @]
    /\ UNCHANGED <<comparison, loader, mapper, differ, app, session, reports>>

\* return comparison_pairs
ReturnPairs ==
    /\ processor.pc = "rows"
    /\ processor.row > Len(processor.metadata_df)
    /\ processor' = [processor EXCEPT !.pc = "done"]
    /\ UNCHANGED <<comparison, loader, mapper, differ, app, session, reports>>

----------------------------------------------------------------------------
(* The spreadsheets explored: the rows of create_metadata.py as read back  *)
(* from the sheet (an empty cell is NaN) and variations of them, in every  *)
(* order; and sheets of one row whose ColumnMapping is any text of at most *)
(* MaxLen characters out of a small alphabet.                              *)

MaxSheetRows == 2

MaxLen == 5

SampleMapping ==
    <<"n", "a", "m", "e", ":", "f", "u", "l", "l", "_", "n", "a", "m", "e",
      ",", "s", "a", "l", "a", "r", "y", ":", "a", "n", "n", "u", "a", "l",
      "_", "s", "a", "l", "a", "r", "y">>

SkipThisComparison ==
    <<"#", "S", "k", "i", "p", " ", "t", "h", "i", "s", " ", "c", "o", "m",
      "p", "a", "r", "i", "s", "o", "n">>

SampleRow ==
    [ComparisonType |-> "Feed To Feed",
     Filename1 |-> "test_data/source.csv",
     Filename2 |-> "test_data/target.csv",
     Separator1 |-> ",", Separator2 |-> ",",
     ColumnMapping |-> Text(SampleMapping),
     IgnoredColumns |-> NaN,
     SkipFile |-> NaN]

SheetRows ==
    { SampleRow,
      [SampleRow EXCEPT !.Filename1 = "test_data/skip_this.csv",
                        !.Filename2 = "test_data/skip_that.csv",
                        !.ColumnMapping = Text(<<"c", "o", "l", "1", ":", "c", "o", "l", "2">>),
                        !.SkipFile = Text(SkipThisComparison)],
      [SampleRow EXCEPT !.Filename1 = "test_data/source2.csv",
                        !.Filename2 = "test_data/target2.csv",
                        !.Separator1 = "|", !.Separator2 = "|",
                        !.ColumnMapping = Text(<<"o", "l", "d", "_", "n", "a", "m", "e", ":", "n", "e", "w", "_", "n", "a", "m", "e">>),
                        !.IgnoredColumns = Text(<<"i", "d", ",", " ", "t", "s">>),
                        !.SkipFile = Text(<<>>)],
      [SampleRow EXCEPT !.Filename1 = "test_data/source3.csv",
                        !.ComparisonType = "Feed To Database"],
      [SampleRow EXCEPT !.Filename1 = "test_data/source4.csv",
                        !.SkipFile = Text(<<" ", "#", "x">>)] }

Alphabet == {"a", "b", ":", ",", " "}

MappingTexts ==
    SeqsUpTo(Alphabet, MaxLen)
    \cup { <<"a", ":", "b", ",", "b", ":", "a">>,
           <<"a", ":", "b", ",", "a", ":", "a">> }

Sheets ==
    SeqsUpTo(SheetRows, MaxSheetRows)
    \cup { <<[SampleRow EXCEPT !.ColumnMapping = Text(chars)]>> :
              chars \in MappingTexts }

InitMetadata ==
    /\ AtRest("MetadataProcessor")
    /\ \E metadata_df \in Sheets : processor = ProcessorCall(metadata_df)

NextMetadata ==
    \/ ProcessRow
    \/ ReturnPairs

SpecMetadata == InitMetadata /\ [][NextMetadata]_vars

----------------------------------------------------------------------------
(* What the claims on the metadata spreadsheet speak of, stated from the   *)
(* text of the cells                                                       *)

PairsReturned == processor.pc = "done"

\* the text without the blanks around it
Trimmed(s) ==
    LET inked == {i \in DOMAIN s : s[i] # " "}
    IN  IF inked = {} THEN <<>>
        ELSE SubSeq(s, CHOOSE i \in inked : \A j \in inked : i <= j,
                       CHOOSE i \in inked : \A j \in inked : i >= j)

\* where the items of a comma-separated text begin: just after position c
Cuts(s) == {0} \cup {i \in DOMAIN s : s[i] = ","}

ItemAt(s, c) ==
    LET later == {i \in DOMAIN s : s[i] = "," /\ i > c}
        end == IF later = {} THEN Len(s) + 1
               ELSE CHOOSE i \in later : \A j \in later : i <= j
    IN  SubSeq(s, c + 1, end - 1)

Colons(item) == {i \in DOMAIN item : item[i] = ":"}

\* the item reads old:new
IsPair(item) == Cardinality(Colons(item)) = 1

OldName(item) ==
    Trimmed(SubSeq(item, 1, (CHOOSE i \in Colons(item) : TRUE) - 1))

NewName(item) ==
    Trimmed(SubSeq(item, (CHOOSE i \in Colons(item) : TRUE) + 1, Len(item)))

\* a text made of comma-separated old:new pairs
MadeOfPairs(s) == s # <<>> /\ \A c \in Cuts(s) : IsPair(ItemAt(s, c))

\* the same, every pair with a name on each side of its colon
MadeOfNamedPairs(s) ==
    /\ MadeOfPairs(s)
    /\ \A c \in Cuts(s) :
          OldName(ItemAt(s, c)) # <<>> /\ NewName(ItemAt(s, c)) # <<>>

\* a text with an item that is not an old:new pair
Malformed(s) == \E c \in Cuts(s) : ~IsPair(ItemAt(s, c))

FeedToFeed(row) == row.ComparisonType = "Feed To Feed"

HashFirst(row) ==
    ~row.SkipFile.nan /\ row.SkipFile.chars # <<>> /\ row.SkipFile.chars[1] = "#"

HashFirstOnceTrimmed(row) ==
    ~row.SkipFile.nan /\ Trimmed(row.SkipFile.chars) # <<>>
       /\ Trimmed(row.SkipFile.chars)[1] = "#"

JobAsWritten(row) == FeedToFeed(row) /\ ~HashFirst(row)

Survives(row) == FeedToFeed(row) /\ ~HashFirstOnceTrimmed(row)

\* the jobs are the given rows, one each, in their order
JobsAre(rows) ==
    /\ Len(processor.comparison_pairs) = Len(rows)
    /\ \A j \in DOMAIN rows :
          /\ processor.comparison_pairs[j].source_file = rows[j].Filename1
          /\ processor.comparison_pairs[j].target_file = rows[j].Filename2
          /\ processor.comparison_pairs[j].source_separator = rows[j].Separator1
          /\ processor.comparison_pairs[j].target_separator = rows[j].Separator2

NoJobForSkipThisComparison ==
    \A r \in DOMAIN processor.metadata_df :
       processor.metadata_df[r].SkipFile = Text(SkipThisComparison) =>
          \A j \in DOMAIN processor.comparison_pairs :
             processor.comparison_pairs[j].source_file
                # processor.metadata_df[r].Filename1

(* C13 as stated: get_comparison_pairs returns, in spreadsheet row order,  *)
(* exactly one job for every row whose SkipFile value does not start with  *)
(* "#" and whose ComparisonType is "Feed To Feed", and no job for any      *)
(* other row; a row whose SkipFile is "#Skip this comparison" yields none. *)
C13_JobPerUnmarkedRow ==
    PairsReturned =>
        /\ JobsAre(SelectSeq(processor.metadata_df, JobAsWritten))
        /\ NoJobForSkipThisComparison

(* C13 amended: get_comparison_pairs returns, in spreadsheet row order,    *)
(* exactly one job for every row whose SkipFile value, once the blanks     *)
(* around it are removed, does not start with "#" and whose ComparisonType *)
(* is "Feed To Feed", and no job for any other row; a row whose SkipFile   *)
(* is "#Skip this comparison" yields none.                                 *)
C13_JobPerSurvivingRow ==
    PairsReturned =>
        /\ JobsAre(SelectSeq(processor.metadata_df, Survives))
        /\ NoJobForSkipThisComparison

C13_Witness ==
    /\ PairsReturned
    /\ Len(processor.metadata_df) = 2
    /\ processor.metadata_df[1].SkipFile = Text(SkipThisComparison)
    /\ Survives(processor.metadata_df[2])
    /\ Len(processor.comparison_pairs) = 1
    /\ processor.comparison_pairs[1].source_file = "test_data/source2.csv"


\* the sheets of one surviving row: the mapping of its job and the text it
\* was parsed from
OneJob ==
    /\ PairsReturned
    /\ Len(processor.metadata_df) = 1
    /\ Len(processor.comparison_pairs) = 1
    /\ ~processor.metadata_df[1].ColumnMapping.nan

MappingText == processor.metadata_df[1].ColumnMapping.chars

ParsedMapping == processor.comparison_pairs[1].mapping

\* the last item of the text whose old name is the given one
LastCutFor(s, old) ==
    CHOOSE c \in Cuts(s) :
       /\ OldName(ItemAt(s, c)) = old
       /\ \A d \in Cuts(s) : OldName(ItemAt(s, d)) = old => d <= c

(* C14 as stated: for a ColumnMapping text made of comma-separated         *)
(* "old:new" pairs, _get_column_mapping returns exactly the mapping with   *)
(* one entry per pair, from the trimmed old name to the trimmed new name,  *)
(* and nothing else; "name:full_name,salary:annual_salary" gives exactly   *)
(* name -> full_name, salary -> annual_salary.                             *)
C14_EntryPerPair ==
    (OneJob /\ MadeOfNamedPairs(MappingText)) =>
        /\ DOMAIN ParsedMapping =
              {OldName(ItemAt(MappingText, c)) : c \in Cuts(MappingText)}
        /\ \A c \in Cuts(MappingText) :
              ParsedMapping[OldName(ItemAt(MappingText, c))]
                 = NewName(ItemAt(MappingText, c))

(* C14 amended: for a ColumnMapping text made of comma-separated "old:new" *)
(* pairs, _get_column_mapping returns exactly the mapping with one entry   *)
(* per distinct trimmed old name, to the trimmed new name of the last pair *)
(* with that old name, and nothing else;                                   *)
(* "name:full_name,salary:annual_salary" gives exactly name -> full_name,  *)
(* salary -> annual_salary.  (Checked for names that may be empty too.)    *)
C14_EntryPerOldName ==
    (OneJob /\ MadeOfPairs(MappingText)) =>
        /\ DOMAIN ParsedMapping =
              {OldName(ItemAt(MappingText, c)) : c \in Cuts(MappingText)}
        /\ \A old \in DOMAIN ParsedMapping :
              ParsedMapping[old]
                 = NewName(ItemAt(MappingText, LastCutFor(MappingText, old)))
        /\ MappingText = SampleMapping =>
              /\ DOMAIN ParsedMapping =
                    {<<"n", "a", "m", "e">>, <<"s", "a", "l", "a", "r", "y">>}
              /\ ParsedMapping[<<"n", "a", "m", "e">>] =
                    <<"f", "u", "l", "l", "_", "n", "a", "m", "e">>
              /\ ParsedMapping[<<"s", "a", "l", "a", "r", "y">>] =
                    <<"a", "n", "n", "u", "a", "l", "_",
                      "s", "a", "l", "a", "r", "y">>

C14_Witness ==
    /\ OneJob
    /\ MappingText = SampleMapping
    /\ Cardinality(DOMAIN ParsedMapping) = 2

(* C15: for every malformed ColumnMapping text, one in which at least one  *)
(* comma-separated item is not of the form "old:new" (no colon, or more    *)
(* than one), _get_column_mapping does not raise and returns the empty     *)
(* mapping, wherever the malformed item stands in the text.                *)
C15_MalformedGivesEmptyMapping ==
    (OneJob /\ Malformed(MappingText)) => ParsedMapping = EmptyDict

----------------------------------------------------------------------------
(* auto_map_columns (main.py).  A column name is a list of characters.     *)
(* SequenceMatcher(None, a, b).ratio() is 2.0 * M / T, T the two lengths   *)
(* together and M the characters in the matching blocks, and 1.0 when T is *)
(* 0; it is kept as the fraction <<2 * M, T>>, and two ratios are compared *)
(* as fractions, which the floating-point quotients agree with.  (The      *)
(* names are far shorter than the 200 characters from which difflib        *)
(* leaves popular characters out.)                                         *)

\* str.lower(), on the letters the names use
Lower(chars) ==
    LET lower == [c \in {"A", "B", "C", "T", "X"} |->
                    CASE c = "A" -> "a" [] c = "B" -> "b" [] c = "C" -> "c"
                      [] c = "T" -> "t" [] c = "X" -> "x"]
    IN  [i \in DOMAIN chars |->
            IF chars[i] \in DOMAIN lower THEN lower[chars[i]] ELSE chars[i]]

\* a[i .. i+k-1] and b[j .. j+k-1] are the same
BlockMatches(a, b, i, j, k) == \A d \in 0..(k - 1) : a[i + d] = b[j + d]

\* SequenceMatcher.find_longest_match(alo, ahi, blo, bhi): the longest block
\* common to a[alo .. ahi-1] and b[blo .. bhi-1]; of the longest, the one
\* that starts earliest in a, and of those the one that starts earliest in
\* b; <<alo, blo, 0>> when nothing matches
FindLongestMatch(a, b, alo, ahi, blo, bhi) ==
    LET blocks == {m \in (alo..(ahi - 1)) \X (blo..(bhi - 1)) \X (1..(ahi - alo)) :
                      /\ m[1] + m[3] <= ahi
                      /\ m[2] + m[3] <= bhi
                      /\ BlockMatches(a, b, m[1], m[2], m[3])}
        Before(m, n) ==
            \/ m[3] > n[3]
            \/ m[3] = n[3] /\ m[1] < n[1]
            \/ m[3] = n[3] /\ m[1] = n[1] /\ m[2] <= n[2]
    IN  IF blocks = {} THEN <<alo, blo, 0>>
        ELSE CHOOSE m \in blocks : \A n \in blocks : Before(m, n)

RECURSIVE MatchingSize(_, _, _, _, _, _)
\* the sizes of SequenceMatcher.get_matching_blocks() added up: the longest
\* block, then the same to its left and to its right
MatchingSize(a, b, alo, ahi, blo, bhi) ==
    LET m == FindLongestMatch(a, b, alo, ahi, blo, bhi)
        i == m[1]
        j == m[2]
        k == m[3]
    IN  IF k = 0 THEN 0
        ELSE k
             + (IF alo < i /\ blo < j
                THEN MatchingSize(a, b, alo, i, blo, j) ELSE 0)
             + (IF i + k < ahi /\ j + k < bhi
                THEN MatchingSize(a, b, i + k, ahi, j + k, bhi) ELSE 0)

\* get_column_similarity(col1, col2)
GetColumnSimilarity(col1, col2) ==
    LET a == Lower(col1)
        b == Lower(col2)
        length == Len(a) + Len(b)
    IN  IF length = 0 THEN <<1, 1>>
        ELSE <<2 * MatchingSize(a, b, 1, Len(a) + 1, 1, Len(b) + 1), length>>

\* the column names explored
SourceNames ==
    { <<"f", "u", "l", "l", "_", "n", "a", "m", "e">>,
      <<"z", "z", "z", "_", "u", "n", "r", "e", "l", "a", "t", "e", "d">>,
      <<"a", "b">>,
      <<"A", "B">>,
      <<"a", "b", "c">>,
      <<>> }

TargetNames ==
    { <<"n", "a", "m", "e">>,
      <<"s", "a", "l", "a", "r", "y">>,
      <<"a">>,
      <<"b">>,
      <<"a", "b">>,
      <<"a", "b", "c", "d", "d", "d", "d">>,
      <<>> }

\* the column labels of the tables, character by character
Chars ==
    [label \in Range(LayoutA) |->
        CASE label = "Column A" -> <<"C", "o", "l", "u", "m", "n", " ", "A">>
          [] label = "Column B" -> <<"C", "o", "l", "u", "m", "n", " ", "B">>
          [] label = "Column C" -> <<"C", "o", "l", "u", "m", "n", " ", "C">>
          [] label = "Text Column" ->
                <<"T", "e", "x", "t", " ", "C", "o", "l", "u", "m", "n">>]

\* similarities = [(target_col, get_column_similarity(source_col, target_col))
\*                 for target_col in target_cols], for every source column
Similarities ==
    [source_col \in SourceNames \cup Range(Chars),
     target_col \in TargetNames \cup Range(Chars) |->
        GetColumnSimilarity(source_col, target_col)]

\* x < y on ratios
Less(x, y) == x[1] * y[2] < y[1] * x[2]

\* the last of the target columns with the greatest ratio
LastBestMatch(source_col, target_cols) ==
    CHOOSE i \in DOMAIN target_cols :
       /\ \A j \in DOMAIN target_cols :
             ~Less(Similarities[source_col, target_cols[i]],
                   Similarities[source_col, target_cols[j]])
       /\ \A j \in DOMAIN target_cols : j > i =>
             Less(Similarities[source_col, target_cols[j]],
                  Similarities[source_col, target_cols[i]])

\* best_match = max(similarities, key=lambda x: x[1]): the first of the
\* target columns with the greatest ratio (its position in target_cols)
BestMatch(source_col, target_cols) ==
    CHOOSE i \in DOMAIN target_cols :
       /\ \A j \in DOMAIN target_cols :
             ~Less(Similarities[source_col, target_cols[i]],
                   Similarities[source_col, target_cols[j]])
       /\ \A j \in DOMAIN target_cols : j < i =>
             Less(Similarities[source_col, target_cols[j]],
                  Similarities[source_col, target_cols[i]])

\* if best_match[1] > 0.6
AboveThreshold(ratio) == 10 * ratio[1] > 6 * ratio[2]

RECURSIVE MapColumns(_, _, _, _)
\* for source_col in source_cols: ... mapping[source_col] = best_match[0]
MapColumns(source_cols, target_cols, n, m) ==
    IF n > Len(source_cols) THEN m
    ELSE LET source_col == source_cols[n]
             best_match == target_cols[BestMatch(source_col, target_cols)]
         IN  MapColumns(source_cols, target_cols, n + 1,
                IF AboveThreshold(Similarities[source_col, best_match])
                THEN SetItem(m, source_col, best_match) ELSE m)

MapperCall(source_cols, target_cols) ==
    [pc |-> "call", source_cols |-> source_cols, target_cols |-> target_cols,
     outcome |-> "running", mapping |-> EmptyDict]


\* auto_map_columns(source_cols, target_cols); max() of an empty list
\* raises ValueError
AutoMapColumns ==
    /\ mapper.pc = "call"
    /\ mapper' =
          IF mapper.source_cols # <<>> /\ mapper.target_cols = <<>>
          THEN [mapper EXCEPT !.pc = "done", !.outcome = "raised"]
          ELSE [mapper EXCEPT
                  !.pc = "done", !.outcome = "returned",
                  !.mapping = MapColumns(mapper.source_cols,
                                         mapper.target_cols, 1, EmptyDict)]
    /\ UNCHANGED <<comparison, loader, processor, differ, app, session, reports>>

----------------------------------------------------------------------------
(* The column lists explored: up to MaxCols names on each side *)

MaxCols == 2

InitMapper ==
    /\ AtRest("auto_map_columns")
    /\ \E source_cols \in SeqsUpTo(SourceNames, MaxCols),
          target_cols \in SeqsUpTo(TargetNames, MaxCols) :
          mapper = MapperCall(source_cols, target_cols)

SpecMapper == InitMapper /\ [][AutoMapColumns]_vars

----------------------------------------------------------------------------
(* What the claim on auto_map_columns speaks of *)

MapperReturned == mapper.pc = "done" /\ mapper.outcome = "returned"

\* x <= y and x > 0.6 on similarity ratios
AtMost(x, y) == x[1] * y[2] <= y[1] * x[2]
MoreThanSixTenths(x) == 5 * x[1] > 3 * x[2]

\* the target column at position i has the greatest ratio to s and no
\* column before it has as great a one
FirstOfTheBest(s, i) ==
    /\ \A j \in DOMAIN mapper.target_cols :
          AtMost(Similarities[s, mapper.target_cols[j]],
                 Similarities[s, mapper.target_cols[i]])
    /\ \A j \in 1..(i - 1) :
          ~AtMost(Similarities[s, mapper.target_cols[i]],
                  Similarities[s, mapper.target_cols[j]])

FullName == <<"f", "u", "l", "l", "_", "n", "a", "m", "e">>
ZzzUnrelated ==
    <<"z", "z", "z", "_", "u", "n", "r", "e", "l", "a", "t", "e", "d">>
Name == <<"n", "a", "m", "e">>
Salary == <<"s", "a", "l", "a", "r", "y">>

(* C18: auto_map_columns maps a source column s to a target column t if    *)
(* and only if t has the greatest similarity ratio to s among the target   *)
(* columns, that ratio is strictly greater than 0.6, and t is the first    *)
(* target column in iteration order with that ratio; a source column whose *)
(* best ratio is at most 0.6 has no entry.  "full_name" against "name" and *)
(* "salary" maps to "name"; "zzz_unrelated" against them maps to nothing.  *)
C18_FirstBestAboveThreshold ==
    MapperReturned =>
        /\ DOMAIN mapper.mapping \subseteq Range(mapper.source_cols)
        /\ \A s \in Range(mapper.source_cols), t \in TargetNames :
              (s \in DOMAIN mapper.mapping /\ mapper.mapping[s] = t)
              <=> \E i \in DOMAIN mapper.target_cols :
                     /\ mapper.target_cols[i] = t
                     /\ FirstOfTheBest(s, i)
                     /\ MoreThanSixTenths(Similarities[s, t])
        /\ \A s \in Range(mapper.source_cols) :
              (\A j \in DOMAIN mapper.target_cols :
                  ~MoreThanSixTenths(Similarities[s, mapper.target_cols[j]]))
              => s \notin DOMAIN mapper.mapping
        /\ Range(mapper.target_cols) = {Name, Salary} =>
              /\ FullName \in Range(mapper.source_cols) =>
                    /\ FullName \in DOMAIN mapper.mapping
                    /\ mapper.mapping[FullName] = Name
              /\ ZzzUnrelated \notin DOMAIN mapper.mapping

C18_Witness ==
    /\ MapperReturned
    /\ mapper.source_cols = <<FullName, ZzzUnrelated>>
    /\ mapper.target_cols = <<Salary, Name>>
    /\ mapper.mapping = SetItem(EmptyDict, FullName, Name)

----------------------------------------------------------------------------
(* generate_data_diff_report (reports.py).  A row of the report is its     *)
(* values in the common columns (a function of the column label, the order *)
(* of list(set(...)) being arbitrary), its _source and its _timestamp.     *)
(* The tables explored share at least one column: what drop_duplicates     *)
(* does with an empty subset depends on the pandas at hand.                *)

\* source_df[common_columns].copy(); source_df['_source'] = side
Tagged(df, common_columns, side) ==
    [i \in 1..NRows(df) |->
        [values |-> [c \in common_columns |-> df.rows[i][LastIndex(df, c)]],
         _source |-> side]]

\* combined_df.drop_duplicates(subset=common_columns, keep=False): every row
\* whose values occur more than once in combined_df is dropped, NaN equal
\* to NaN
DropDuplicatesKeepFalse(combined_df) ==
    LET Once(row) ==
           Cardinality({k \in DOMAIN combined_df :
                           combined_df[k].values = row.values}) = 1
    IN  SelectSeq(combined_df, Once)

\* diff_df, with diff_df['_timestamp'] = datetime.now().strftime(...)
DiffRows(s, t, now) ==
    LET common_columns == Labels(s) \cap Labels(t)
        combined_df == Tagged(s, common_columns, "source")
                       \o Tagged(t, common_columns, "target")
        diff_df == DropDuplicatesKeepFalse(combined_df)
    IN  [i \in DOMAIN diff_df |->
            [values |-> diff_df[i].values, _source |-> diff_df[i]._source,
             _timestamp |-> now]]

\* generate_data_diff_report(source_df, target_df) is entered and reads
\* the clock: timestamp = datetime.now().strftime("%Y%m%d_%H%M%S")
DiffCall(s, t, now) ==
    [pc |-> "call", source_df |-> s, target_df |-> t,
     now |-> now, outcome |-> "running", diff_df |-> <<>>]

\* a generator has written REPORTS_DIR / f"{generator}_{timestamp}.html"
\* (.csv for the difference report), the clock last read at now
Written(r, generator, timestamp, now) ==
    [now |-> now, written |-> Append(r.written, <<generator, timestamp>>)]

\* generate_data_diff_report(source_df, target_df): the clock is read again
\* for _timestamp, the report is written and its path returned; or writing
\* it fails and the error is raised
GenerateDataDiffReport ==
    /\ differ.pc = "call"
    /\ \/ \E later \in differ.now..MaxTime :
             /\ differ' = [differ EXCEPT
                             !.pc = "done", !.outcome = "returned",
                             !.diff_df = DiffRows(differ.source_df,
                                                  differ.target_df, later)]
             /\ reports' = Written(reports, "diff_report", differ.now, later)
       \/ /\ differ' = [differ EXCEPT !.pc = "done", !.outcome = "raised"]
          /\ reports' = reports
    /\ UNCHANGED <<comparison, loader, processor, mapper, app, session>>

\* the pairs of tables explored
DiffTables == {t \in Tables : ~t.isNone /\ t.columns # <<>>}

InitDiff ==
    /\ AtRest("generate_data_diff_report")
    /\ \E s \in DiffTables, t \in DiffTables, now \in 0..MaxTime :
          differ = DiffCall(s, t, now)

SpecDiff == InitDiff /\ [][GenerateDataDiffReport]_vars

----------------------------------------------------------------------------
(* What the claim on the difference report speaks of *)

DiffReturned == differ.pc = "done" /\ differ.outcome = "returned"

DiffColumns == Labels(differ.source_df) \cap Labels(differ.target_df)

\* the values of row i of a table in the common columns
ValuesOf(tbl, i) == [c \in DiffColumns |-> CellAt(tbl, i, c)]

OccursIn(tbl, values) == \E i \in 1..NRows(tbl) : ValuesOf(tbl, i) = values

Reported(values, side) ==
    \E k \in DOMAIN differ.diff_df :
       differ.diff_df[k].values = values /\ differ.diff_df[k]._source = side

(* C19: the difference report holds, over the columns common to the two    *)
(* tables, a row if and only if the values of that row occur in one of the *)
(* two tables and not in the other; each reported row carries as _source   *)
(* the side it came from, "source" or "target", and a timestamp.           *)
C19_RowsOfOneSideOnly ==
    DiffReturned =>
        /\ \A i \in 1..NRows(differ.source_df) :
              Reported(ValuesOf(differ.source_df, i), "source")
              <=> ~OccursIn(differ.target_df, ValuesOf(differ.source_df, i))
        /\ \A i \in 1..NRows(differ.target_df) :
              Reported(ValuesOf(differ.target_df, i), "target")
              <=> ~OccursIn(differ.source_df, ValuesOf(differ.target_df, i))
        /\ \A k \in DOMAIN differ.diff_df :
              /\ differ.diff_df[k]._timestamp = differ.now
              /\ \/ /\ differ.diff_df[k]._source = "source"
                    /\ OccursIn(differ.source_df, differ.diff_df[k].values)
                 \/ /\ differ.diff_df[k]._source = "target"
                    /\ OccursIn(differ.target_df, differ.diff_df[k].values)

----------------------------------------------------------------------------
(* The page script of main.py. Streamlit runs it from the top on every     *)
(* click; a run is the handler of the button clicked: Run Metadata         *)
(* Comparisons (run_metadata_comparison), Load Data and Show Mapping, or   *)
(* Compare Data. The handler calls load_data, MetadataProcessor,           *)
(* auto_map_columns, perform_comparison and generate_data_diff_report,     *)
(* which take their steps as above, and goes on when the call is done.     *)
(* app.steps lists, in order, what the run has done so far: the calls that *)
(* returned and the elements it has put on the page, each with the number  *)
(* of the batch job it belongs to (0 outside of a job). The page of the    *)
(* run before is gone when a run starts.                                   *)

(* The sessions explored: up to MaxRuns clicks, on any of the three        *)
(* buttons; the spreadsheets and the files the user may have uploaded      *)

MaxRuns == 2

UploadedSheets ==
    { <<>>,
      <<SampleRow>>,
      <<[SampleRow EXCEPT !.SkipFile = Text(SkipThisComparison)]>>,
      <<SampleRow,
        [SampleRow EXCEPT !.Filename1 = "test_data/skip_this.csv",
                          !.SkipFile = Text(SkipThisComparison)],
        [SampleRow EXCEPT !.Filename1 = "test_data/source2.csv",
                          !.Filename2 = "test_data/target2.csv",
                          !.Separator1 = "|", !.Separator2 = "|"]>> }

\* source type, uploaded file (None without an upload) and separator
Widgets ==
    LET row == CHOOSE r \in RowPoolA : \A c \in Range(r) : ~IsNull(c)
        small == <<0, 1>>
        large == <<ThresholdGiB, 1>>
    IN  { <<"CSV file", NoneInput, ",">>,
          <<"CSV file",
            FileObject(Content(small, TRUE, DataFrame(LayoutA, <<row>>))), ",">>,
          <<"CSV file",
            FileObject(Content(small, TRUE, DataFrame(LayoutA, <<>>))), ",">>,
          <<"Dat file", FileObject(Content(small, FALSE, NoneTable)), "|">>,
          <<"CSV file",
            FileObject(Content(large, TRUE, DataFrame(LayoutA, <<row>>))), ",">>,
          <<"Parquet file",
            FileObject(Content(small, TRUE, NoneTable)), "None">> }

\* a list of column labels as the strings auto_map_columns is given
AsChars(columns) == [i \in DOMAIN columns |-> Chars[columns[i]]]

\* a dict of names as a dict of column labels; a name that is no label of
\* the tables renames nothing and is renamed to by nothing
AsLabels(m) ==
    LET known == {label \in DOMAIN Chars :
                     /\ Chars[label] \in DOMAIN m
                     /\ \E to \in DOMAIN Chars : Chars[to] = m[Chars[label]]}
    IN  [label \in known |->
            CHOOSE to \in DOMAIN Chars : Chars[to] = m[Chars[label]]]

\* list(ignored_columns), of a set
ListOf(S) == CHOOSE s \in [1..Cardinality(S) -> S] : Range(s) = S

Step(a, job, what) == [a EXCEPT !.steps = Append(@, <<job, what>>)]

\* the job the run is at: i of enumerate(comparison_pairs, 1), 0 outside
Job(a) == IF a.handler = "batch" THEN a.i ELSE 0

\* the next turn of for i, pair in enumerate(comparison_pairs, 1); the end
\* of the handler in single mode
Continue(a) ==
    IF a.handler = "batch"
    THEN [a EXCEPT !.i = @ + 1, !.pc = "job", !.source_data = NoneTable,
                   !.target_data = NoneTable]
    ELSE [a EXCEPT !.pc = "idle", !.source_data = NoneTable,
                   !.target_data = NoneTable]

\* the first failure ends the whole batch
CatchEndingBatch(a) ==
    [Step(a, Job(a), "error") EXCEPT !.pc = "idle"]

\* the reports are offered although a step failed
CatchOfferingReports(a) ==
    Continue(Step(Step(a, Job(a), "error"), Job(a), "download_allure"))

\* except Exception as e: st.error(...), of the try around one job (batch)
\* or around the handler (single mode)
Catch(a) == Continue(Step(a, Job(a), "error"))

\* the arguments of load_data for one side: the job's in batch mode, the
\* widgets' in single mode (source_file if 'source_file' in locals() else
\* None); no connection string is configured
LoadArguments(a, side) ==
    LET env == [v \in {"SQL_SERVER_CONNECTION", "TERADATA_CONNECTION"} |-> "None"]
        pair == a.comparison_pairs[a.i]
    IN  IF a.handler = "batch"
        THEN IF side = "source"
             THEN LoadCall(pair.source_type, StrInput(pair.source_file),
                           pair.source_separator, env)
             ELSE LoadCall(pair.target_type, StrInput(pair.target_file),
                           pair.target_separator, env)
        ELSE LET widgets == IF side = "source" THEN a.choice[1] ELSE a.choice[2]
             IN  LoadCall(widgets[1], widgets[2], widgets[3], env)

\* perform_comparison(source_data, target_data, mapping, ignored_columns)
\* is entered
CallPerformComparison(s, t, m, ignored) ==
    /\ source_arg' = s
    /\ target_arg' = t
    /\ mapping' = m
    /\ ignored_columns' = ignored
    /\ source_df' = s
    /\ target_df' = t
    /\ results' = InitialResults
    /\ pc' = "prepare"
    /\ outcome' = "running"
    /\ returned' = NoValue
    /\ error' = <<>>

\* the mapping form shows without an exception:
\* st.session_state.target_columns.index(st.session_state.auto_mapping[...])
\* raises ValueError for a mapped-to column that is no target column
FormRenders(s) ==
    \A source_col_name \in Range(s.source_columns) :
       source_col_name \in DOMAIN s.auto_mapping
          => s.auto_mapping[source_col_name] \in Range(s.target_columns)

\* mapping, as the form builds it: for every source column the option
\* selected, if it is not "". selected holds the selectboxes the user has
\* set; the others stand at the automatic mapping, or at "" without one
FormMapping(s, selected) ==
    LET Selection(source_col_name) ==
           IF source_col_name \in DOMAIN selected
           THEN selected[source_col_name]
           ELSE IF source_col_name \in DOMAIN s.auto_mapping
           THEN s.auto_mapping[source_col_name]
           ELSE ""
    IN  [source_col_name \in {c \in Range(s.source_columns) : Selection(c) # ""} |->
            Selection(source_col_name)]

\* a click on Run Metadata Comparisons: the spreadsheet is read, or
\* reading it raises and the outer except shows the error
ClickRunMetadata ==
    /\ app.pc = "idle"
    /\ app.runs < MaxRuns
    /\ \/ \E metadata_df \in UploadedSheets :
             /\ processor' = ProcessorCall(metadata_df)
             /\ app' = [NoRun EXCEPT !.pc = "pairs", !.handler = "batch",
                                     !.runs = app.runs + 1]
       \/ /\ processor' = processor
          /\ app' = Step([NoRun EXCEPT !.handler = "batch",
                                       !.runs = app.runs + 1], 0, "error")
    /\ UNCHANGED <<comparison, loader, mapper, differ, session, reports>>

\* if not comparison_pairs: st.warning(...); return
\* st.info(f"Found {len(comparison_pairs)} comparison pairs to process.")
AfterPairs ==
    /\ app.pc = "pairs"
    /\ processor.pc = "done"
    /\ app' = IF processor.comparison_pairs = <<>>
              THEN [Step(app, 0, "warning") EXCEPT !.pc = "idle"]
              ELSE [Step(app, 0, "info") EXCEPT
                      !.comparison_pairs = processor.comparison_pairs,
                      !.i = 1, !.pc = "job"]
    /\ UNCHANGED <<comparison, loader, processor, mapper, differ, session, reports>>

\* for i, pair in enumerate(comparison_pairs, 1): st.subheader(...), and
\* the first call of load_data; the handler ends after the last job
StartJob ==
    /\ app.pc = "job"
    /\ IF app.i > Len(app.comparison_pairs)
       THEN /\ app' = [app EXCEPT !.pc = "idle"]
            /\ loader' = loader
       ELSE /\ app' = [Step(app, app.i, "subheader") EXCEPT !.pc = "source"]
            /\ loader' = LoadArguments(app, "source")
    /\ UNCHANGED <<comparison, processor, mapper, differ, session, reports>>

\* a click on Load Data and Show Mapping, with the widgets as the user
\* left them, and the first call of load_data
ClickLoad ==
    /\ app.pc = "idle"
    /\ app.runs < MaxRuns
    /\ \E source \in Widgets, target \in Widgets :
          LET a == [NoRun EXCEPT !.pc = "source", !.handler = "load",
                                 !.runs = app.runs + 1,
                                 !.choice = <<source, target>>]
          IN  /\ app' = a
              /\ loader' = LoadArguments(a, "source")
    /\ UNCHANGED <<comparison, processor, mapper, differ, session, reports>>

\* source_data = load_data(...) is back; target_data = load_data(...)
AfterSourceLoad ==
    /\ app.pc = "source"
    /\ loader.pc = "done"
    /\ IF loader.outcome = "raised"
       THEN /\ app' = Catch(app)
            /\ loader' = loader
       ELSE /\ app' = [Step(app, Job(app), "load_source") EXCEPT
                         !.source_data = loader.df, !.pc = "target"]
            /\ loader' = LoadArguments(app, "target")
    /\ UNCHANGED <<comparison, processor, mapper, differ, session, reports>>

\* target_data = load_data(...) is back. A batch job goes on to
\* perform_comparison; the Load handler stores the column names and calls
\* auto_map_columns
AfterTargetLoad ==
    /\ app.pc = "target"
    /\ loader.pc = "done"
    /\ IF loader.outcome = "raised"
       THEN /\ app' = Catch(app)
            /\ UNCHANGED <<comparison, mapper, session>>
       ELSE IF app.handler = "batch"
       THEN LET pair == app.comparison_pairs[app.i]
                IsLabel(name) == name \in Range(Chars)
                known == SelectSeq(pair.ignored_columns, IsLabel)
            IN  /\ app' = [Step(app, Job(app), "load_target") EXCEPT
                             !.target_data = loader.df, !.pc = "comparing"]
                /\ CallPerformComparison(
                      app.source_data, loader.df,
                      Dict(AsLabels(pair.mapping)),
                      List([k \in DOMAIN known |->
                              CHOOSE label \in DOMAIN Chars :
                                 Chars[label] = known[k]]))
                /\ UNCHANGED <<mapper, session>>
       ELSE /\ app' = [Step(app, Job(app), "load_target") EXCEPT
                         !.target_data = loader.df, !.pc = "mapping"]
            /\ session' = [session EXCEPT
                             !.source_columns = app.source_data.columns,
                             !.target_columns = loader.df.columns]
            /\ mapper' = MapperCall(AsChars(app.source_data.columns),
                                    AsChars(loader.df.columns))
            /\ UNCHANGED comparison
    /\ UNCHANGED <<loader, processor, differ, reports>>

\* st.session_state.auto_mapping = auto_map_columns(...) is back, and the
\* rest of the Load handler
AfterAutoMap ==
    /\ app.pc = "mapping"
    /\ mapper.pc = "done"
    /\ IF mapper.outcome = "raised"
       THEN /\ app' = Catch(app)
            /\ session' = session
       ELSE /\ app' = Continue(app)
            /\ session' = [session EXCEPT
                             !.auto_mapping = AsLabels(mapper.mapping),
                             !.mapping_done = TRUE,
                             !.source_data = app.source_data,
                             !.target_data = app.target_data]
    /\ UNCHANGED <<comparison, loader, processor, mapper, differ, reports>>

\* a click on Compare Data: the form is shown, with at most one Include
\* box unchecked by the user, who may also have set the selectbox of that
\* column to any of its options; st.session_state.ignored_columns is
\* updated, and perform_comparison is called
ClickCompare ==
    /\ app.pc = "idle"
    /\ app.runs < MaxRuns
    /\ session.mapping_done
    /\ FormRenders(session)
    /\ \E unchecked \in SUBSET Range(session.source_columns) :
          /\ Cardinality(unchecked) <= 1
          /\ session' = [session EXCEPT !.ignored_columns = unchecked]
          /\ \E selected \in {<<>>} \cup
                   [unchecked -> {""} \cup Range(session.target_columns)] :
                CallPerformComparison(
                   session.source_data, session.target_data,
                   Dict(FormMapping(session, selected)),
                   List(ListOf(unchecked)))
    /\ app' = [NoRun EXCEPT !.pc = "comparing", !.handler = "compare",
                            !.runs = app.runs + 1,
                            !.source_data = session.source_data,
                            !.target_data = session.target_data]
    /\ UNCHANGED <<loader, processor, mapper, differ, reports>>

\* results = perform_comparison(...) is back; generate_allure_report
\* reads the clock and writes its report, or raises;
\* generate_data_diff_report is called with the two table objects that
\* were passed to perform_comparison, as that call left them
AfterComparison ==
    /\ app.pc = "comparing"
    /\ pc = "done"
    /\ IF outcome = "raised"
       THEN /\ app' = Catch(app)
            /\ UNCHANGED <<differ, reports>>
       ELSE \/ /\ app' = [Step(Step(app, Job(app), "compare"),
                               Job(app), "allure_report")
                             EXCEPT !.pc = "diffing"]
               /\ \E timestamp \in reports.now..MaxTime :
                     /\ reports' = Written(reports, "allure_report",
                                           timestamp, timestamp)
                     /\ \E now \in timestamp..MaxTime :
                           differ' = DiffCall(source_arg, target_arg, now)
            \/ /\ app' = Catch(Step(app, Job(app), "compare"))
               /\ UNCHANGED <<differ, reports>>
    /\ UNCHANGED <<comparison, loader, processor, mapper, session>>

\* the download buttons of one run, after st.success(...) in single mode
Offers(a) ==
    LET shown == IF a.handler = "batch" THEN a
                 ELSE Step(a, Job(a), "success")
    IN  Step(Step(Step(shown, Job(a), "download_allure"),
                  Job(a), "download_diff"),
             Job(a), "download_profile")

\* diff_report = generate_data_diff_report(...) is back;
\* generate_profiling_report reads the clock and writes its report, or
\* raises; the three
\* reports are offered for download
AfterDiff ==
    /\ app.pc = "diffing"
    /\ differ.pc = "done"
    /\ IF differ.outcome = "raised"
       THEN /\ app' = Catch(app)
            /\ reports' = reports
       ELSE \/ /\ app' = Continue(Offers(Step(Step(app, Job(app), "diff_report"),
                                              Job(app), "profile_report")))
               /\ \E timestamp \in reports.now..MaxTime :
                     reports' = Written(reports, "profile_report",
                                        timestamp, timestamp)
            \/ /\ app' = Catch(Step(app, Job(app), "diff_report"))
               /\ reports' = reports
    /\ UNCHANGED <<comparison, loader, processor, mapper, differ, session>>

----------------------------------------------------------------------------
InitApp ==
    /\ AtRest("main")
    /\ app = NoRun
    /\ session = NewSession

NextApp ==
    \/ ClickRunMetadata
    \/ ClickLoad
    \/ ClickCompare
    \/ AfterPairs
    \/ StartJob
    \/ AfterSourceLoad
    \/ AfterTargetLoad
    \/ AfterAutoMap
    \/ AfterComparison
    \/ AfterDiff
    \/ NextLoad
    \/ NextMetadata
    \/ AutoMapColumns
    \/ Next
    \/ GenerateDataDiffReport

SpecApp == InitApp /\ [][NextApp]_vars

----------------------------------------------------------------------------
(* What the claims on the page script speak of *)

\* the steps of the run that belong to one job, in order
StepsOf(job) ==
    LET OfJob(step) == step[1] = job
        own == SelectSeq(app.steps, OfJob)
    IN  [k \in DOMAIN own |-> own[k][2]]

\* the jobs attempted so far, in the order of their subheaders
Attempts ==
    LET Subheader(step) == step[2] = "subheader"
        shown == SelectSeq(app.steps, Subheader)
    IN  [k \in DOMAIN shown |-> shown[k][1]]

Has(job, what) == \E k \in DOMAIN app.steps : app.steps[k] = <<job, what>>

Times(job, what) ==
    Cardinality({k \in DOMAIN app.steps : app.steps[k] = <<job, what>>})

JobCount == Len(app.comparison_pairs)

BatchOver == app.handler = "batch" /\ app.pc = "idle"

\* the batch is past job i
JobOver(job) ==
    app.handler = "batch" /\ (app.i > job \/ app.pc = "idle") /\ job <= JobCount

\* C16: in a batch run over n jobs, the jobs attempted are 1, 2, ... in list
\* order, each once, and all n of them once the run is over; a job that is
\* over either had its reports offered or had its failure displayed, once,
\* under its own subheader
C16_EveryJobAttemptedOnce ==
    app.handler = "batch" =>
       /\ Attempts = [k \in DOMAIN Attempts |-> k]
       /\ Len(Attempts) <= JobCount
       /\ BatchOver => Len(Attempts) = JobCount
       /\ \A job \in 1..JobCount :
             /\ Has(job, "error") =>
                   /\ Times(job, "error") = 1
                   /\ StepsOf(job)[1] = "subheader"
                   /\ StepsOf(job)[Len(StepsOf(job))] = "error"
             /\ JobOver(job) =>
                   (Has(job, "error") = ~Has(job, "download_profile"))

\* a batch of two jobs is over, and both jobs failed
C16_Witness ==
    /\ BatchOver
    /\ JobCount = 2
    /\ Attempts = <<1, 2>>
    /\ Has(1, "error")
    /\ Has(2, "error")

\* the call of load_data under way is the one the job asks for: the job's
\* file and the job's separator for that side
LoadsWithJobSeparators ==
    app.handler = "batch" /\ app.pc \in {"source", "target"} =>
       LET pair == app.comparison_pairs[app.i]
       IN  /\ loader.source_type = "CSV file"
           /\ app.pc = "source" =>
                 /\ loader.input_obj = StrInput(pair.source_file)
                 /\ loader.separator = pair.source_separator
           /\ app.pc = "target" =>
                 /\ loader.input_obj = StrInput(pair.target_file)
                 /\ loader.separator = pair.target_separator

\* C17: every job of a batch (its files are taken to be readable delimited
\* text) has both sides loaded by load_data with the job's separators, is
\* then compared and then has its three reports generated; so once the
\* batch is over each job shows these six steps
C17_JobsGoThroughThePipeline ==
    /\ LoadsWithJobSeparators
    /\ BatchOver =>
          \A job \in 1..JobCount :
             /\ Len(StepsOf(job)) >= 7
             /\ SubSeq(StepsOf(job), 2, 7) =
                   <<"load_source", "load_target", "compare",
                     "allure_report", "diff_report", "profile_report">>

\* what one comparison run does when nothing fails, step by step: a batch
\* job, the Load handler and the Compare handler of single mode
Pipeline(handler) ==
    IF handler = "batch"
    THEN <<"subheader", "load_source", "load_target", "compare",
           "allure_report", "diff_report", "profile_report",
           "download_allure", "download_diff", "download_profile">>
    ELSE IF handler = "load" THEN <<"load_source", "load_target">>
    ELSE <<"compare", "allure_report", "diff_report", "profile_report",
           "success", "download_allure", "download_diff", "download_profile">>

Downloads == {"download_allure", "download_diff", "download_profile"}

\* done is the pipeline up to some step, or the pipeline up to a step
\* before the first download followed by the display of the error
InOrderOrAborted(done, pipeline) ==
    \/ \E k \in 0..Len(pipeline) : done = SubSeq(pipeline, 1, k)
    \/ \E k \in 0..Len(pipeline) :
          /\ done = Append(SubSeq(pipeline, 1, k), "error")
          /\ \A j \in 1..k : pipeline[j] \notin Downloads

\* the comparison runs of the page as it stands: the jobs of a batch, or
\* the one run of single mode
Runs ==
    IF app.handler = "batch" THEN 1..JobCount
    ELSE IF app.handler = "none" THEN {} ELSE {0}

\* C20: the steps of a comparison run are taken in the order load,
\* compare, the three reports, the downloads, and a run in which a step
\* failed stops there: it shows the error and offers no report. In single
\* mode the tables compared are those stored by a Load run that succeeded.
C20_OrderedAndAbortedOnFailure ==
    /\ \A run \in Runs : InOrderOrAborted(StepsOf(run), Pipeline(app.handler))
    /\ app.handler = "compare" =>
          /\ session.mapping_done
          /\ ~session.source_data.isNone
          /\ ~session.target_data.isNone
          /\ source_arg = session.source_data
          /\ target_arg = session.target_data
    /\ session.mapping_done = ~session.source_data.isNone

\* a Compare run of single mode has offered its three reports
C20_Witness ==
    /\ app.handler = "compare"
    /\ app.pc = "idle"
    /\ StepsOf(0) = Pipeline("compare")

----------------------------------------------------------------------------
(* The further claims on auto_map_columns *)

\* C24: auto_map_columns returns for every pair of column lists, an empty
\* target list included, and what it returns maps source columns to
\* target columns
C24_ReturnsAMappingForEveryInput ==
    mapper.pc = "done" =>
       /\ mapper.outcome = "returned"
       /\ DOMAIN mapper.mapping \subseteq Range(mapper.source_cols)
       /\ \A source_col \in DOMAIN mapper.mapping :
             mapper.mapping[source_col] \in Range(mapper.target_cols)

----------------------------------------------------------------------------
(* The report generators of reports.py, called one after the other in any  *)
(* order, up to MaxCalls reports. Each reads the clock when it is entered  *)
(* and names its report after the second read; the clock never runs        *)
(* backwards and need not have advanced between two calls.                 *)

MaxCalls == 3

\* generate_allure_report(results) or generate_profiling_report(source_df,
\* target_df): timestamp = datetime.now().strftime("%Y%m%d_%H%M%S"), and
\* the report is written to REPORTS_DIR / f"..._{timestamp}.html"
GenerateReport ==
    /\ differ.pc # "call"
    /\ Len(reports.written) < MaxCalls
    /\ \E generator \in {"allure_report", "profile_report"},
          timestamp \in reports.now..MaxTime :
          reports' = Written(reports, generator, timestamp, timestamp)
    /\ UNCHANGED <<comparison, loader, processor, mapper, differ, app, session>>

\* generate_data_diff_report(source_df, target_df) is called
CallDataDiffReport ==
    /\ differ.pc # "call"
    /\ Len(reports.written) < MaxCalls
    /\ \E s \in LoadableTables, t \in LoadableTables,
          now \in reports.now..MaxTime :
          differ' = DiffCall(s, t, now)
    /\ UNCHANGED <<comparison, loader, processor, mapper, app, session, reports>>

InitReports == AtRest("reports")

NextReports ==
    \/ GenerateReport
    \/ CallDataDiffReport
    \/ GenerateDataDiffReport

SpecReports == InitReports /\ [][NextReports]_vars

\* C21: no report generator writes to a path that an earlier call of the
\* same generator wrote to: the paths written are all different
C21_NoReportOverwritten ==
    \A i, j \in DOMAIN reports.written :
       i < j => reports.written[i] # reports.written[j]

----------------------------------------------------------------------------
(* The further claims on the page script *)

\* the stored column lists are those of the stored tables, and the stored
\* automatic mapping maps to stored target columns
SessionConsistent ==
    session.mapping_done =>
       /\ session.source_columns = session.source_data.columns
       /\ session.target_columns = session.target_data.columns
       /\ \A source_col \in DOMAIN session.auto_mapping :
             session.auto_mapping[source_col] \in Range(session.target_columns)

\* no Load has succeeded yet, and the session holds nothing of a Load
UntouchedByFailedLoads ==
    ~session.mapping_done =>
       /\ session.source_columns = NewSession.source_columns
       /\ session.target_columns = NewSession.target_columns
       /\ session.auto_mapping = NewSession.auto_mapping
       /\ session.source_data = NewSession.source_data
       /\ session.target_data = NewSession.target_data

\* C22: after any sequence of Load Data and Show Mapping runs (no handler
\* is under way), the session is consistent whenever mapping_done is true; a Load that fails leaves
\* the session as it was, so that before the first Load that succeeds the
\* session holds nothing of a Load
C22_SessionConsistentAfterLoads ==
    app.pc = "idle" =>
       /\ SessionConsistent
       /\ UntouchedByFailedLoads


\* perform_comparison, called by the Compare handler, is past its renaming
\* and dropping: the checks run, or have run, on source_df and target_df
ChecksUnderWay ==
    /\ app.handler = "compare"
    /\ pc \notin {"idle", "prepare"}
    /\ pc = "row_count" \/ Populated(results.row_count)

\* the source table without its unchecked columns, renamed as the form says
SourceWithoutUnchecked ==
    SourceAfterMapping(Drop(source_arg, ListOf(session.ignored_columns)),
                       mapping)

\* C23: the checks of a comparison started by Compare Data run on the
\* source table without the columns whose Include box is unchecked,
\* whatever the form maps them to
C23_UncheckedColumnTakesNoPart ==
    ChecksUnderWay => source_df = SourceWithoutUnchecked


----------------------------------------------------------------------------
(* The tables passed to perform_comparison *)

\* perform_comparison was called by the Compare handler
ComparisonOfSession == app.handler = "compare" /\ pc # "idle"

\* the difference report of this run has been asked for
DiffReportOfSession ==
    app.handler = "compare" /\ Has(0, "allure_report") /\ differ.pc # "idle"

\* C25: while perform_comparison runs and after it has returned or raised,
\* the two tables it was passed are the session's tables as loaded, and
\* the difference report generated afterwards is given these tables
C25_PassedTablesUnchanged ==
    /\ ComparisonOfSession =>
          /\ source_arg = session.source_data
          /\ target_arg = session.target_data
    /\ DiffReportOfSession =>
          /\ differ.source_df = session.source_data
          /\ differ.target_df = session.target_data

\* perform_comparison has returned after binding source_df to a table with
\* a column renamed and a column dropped, and the difference report is
\* generated from the session's tables
C25_Witness ==
    /\ DiffReportOfSession
    /\ outcome = "returned"
    /\ Truthy(mapping)
    /\ session.ignored_columns # {}
    /\ source_df.columns # session.source_data.columns
    /\ Len(source_df.columns) < Len(session.source_data.columns)
    /\ differ.source_df = session.source_data

\* perform_comparison has raised after binding source_df to another table
C25_WitnessRaised ==
    /\ ComparisonOfSession
    /\ outcome = "raised"
    /\ source_df # source_arg

====
